---- MODULE Spec2Model ----
(***************************************************************************)
(* Model of the CV metadata extraction engine of appcv                     *)
(* (src/app.py: parse_cv_metadata) and of its callers (upload, the batch   *)
(* re-parse script src/reparse_cvs.py).                                    *)
(*                                                                         *)
(* Texts are TLA+ strings, i.e. sequences of characters; the Python string *)
(* operations and the regular expressions of the source are computed       *)
(* character by character.  The two dashes U+2013 and U+2014 of the source *)
(* are written "~" and "^" here (EnDash, EmDash), since they cannot be     *)
(* written in a string of this language; every other character stands for  *)
(* itself.                                                                 *)
(***************************************************************************)
EXTENDS Integers, Sequences, FiniteSets, TLC

\* ------------------------------------------------------------------------
\* Characters
\* ------------------------------------------------------------------------
EnDash == "~"
EmDash == "^"

LowerAZ ==
  {"a","b","c","d","e","f","g","h","i","j","k","l","m",
   "n","o","p","q","r","s","t","u","v","w","x","y","z"}
UpperAZ ==
  {"A","B","C","D","E","F","G","H","I","J","K","L","M",
   "N","O","P","Q","R","S","T","U","V","W","X","Y","Z"}
Digits == {"0","1","2","3","4","5","6","7","8","9"}
\* The accented letters of the two locales (a subset of U+00C0..U+00FF).
LowerAcc == {"à","â","ç","è","é","ê","î","ï","ô","ù","û"}
UpperAcc == {"À","Â","Ç","È","É","Ê","Î","Ï","Ô","Ù","Û"}
\* Python's \s and str.strip()/str.split() whitespace, as it occurs in texts.
Space == {" ", "\t", "\n"}
\* Python's \w (Unicode letters, digits and the underscore).
WordChars == LowerAZ \cup UpperAZ \cup LowerAcc \cup UpperAcc \cup Digits \cup {"_"}

\* str.lower() / str.upper() on one character.
ToLower ==
  ("A" :> "a") @@ ("B" :> "b") @@ ("C" :> "c") @@ ("D" :> "d") @@ ("E" :> "e") @@
  ("F" :> "f") @@ ("G" :> "g") @@ ("H" :> "h") @@ ("I" :> "i") @@ ("J" :> "j") @@
  ("K" :> "k") @@ ("L" :> "l") @@ ("M" :> "m") @@ ("N" :> "n") @@ ("O" :> "o") @@
  ("P" :> "p") @@ ("Q" :> "q") @@ ("R" :> "r") @@ ("S" :> "s") @@ ("T" :> "t") @@
  ("U" :> "u") @@ ("V" :> "v") @@ ("W" :> "w") @@ ("X" :> "x") @@ ("Y" :> "y") @@
  ("Z" :> "z") @@ ("À" :> "à") @@ ("Â" :> "â") @@ ("Ç" :> "ç") @@ ("È" :> "è") @@
  ("É" :> "é") @@ ("Ê" :> "ê") @@ ("Î" :> "î") @@ ("Ï" :> "ï") @@ ("Ô" :> "ô") @@
  ("Ù" :> "ù") @@ ("Û" :> "û")
ToUpper ==
  ("a" :> "A") @@ ("b" :> "B") @@ ("c" :> "C") @@ ("d" :> "D") @@ ("e" :> "E") @@
  ("f" :> "F") @@ ("g" :> "G") @@ ("h" :> "H") @@ ("i" :> "I") @@ ("j" :> "J") @@
  ("k" :> "K") @@ ("l" :> "L") @@ ("m" :> "M") @@ ("n" :> "N") @@ ("o" :> "O") @@
  ("p" :> "P") @@ ("q" :> "Q") @@ ("r" :> "R") @@ ("s" :> "S") @@ ("t" :> "T") @@
  ("u" :> "U") @@ ("v" :> "V") @@ ("w" :> "W") @@ ("x" :> "X") @@ ("y" :> "Y") @@
  ("z" :> "Z") @@ ("à" :> "À") @@ ("â" :> "Â") @@ ("ç" :> "Ç") @@ ("è" :> "È") @@
  ("é" :> "É") @@ ("ê" :> "Ê") @@ ("î" :> "Î") @@ ("ï" :> "Ï") @@ ("ô" :> "Ô") @@
  ("ù" :> "Ù") @@ ("û" :> "Û")

IsUpperChar(c) == c \in UpperAZ \cup UpperAcc
IsLowerChar(c) == c \in LowerAZ \cup LowerAcc
IsCased(c) == IsUpperChar(c) \/ IsLowerChar(c)
LowerChar(c) == IF IsUpperChar(c) THEN ToLower[c] ELSE c
UpperChar(c) == IF IsLowerChar(c) THEN ToUpper[c] ELSE c

\* ------------------------------------------------------------------------
\* Python string operations
\* ------------------------------------------------------------------------
Min(a, b) == IF a < b THEN a ELSE b
Max(a, b) == IF a > b THEN a ELSE b

\* s[i] (1-based); "" outside the string.
At(s, i) == IF 1 <= i /\ i <= Len(s) THEN SubSeq(s, i, i) ELSE ""
\* s[a-1:b] of Python, clipped to the string.
Slice(s, a, b) == SubSeq(s, Max(a, 1), Min(b, Len(s)))

\* The characters lo..hi of s, each lower-cased (by halves, to keep the
\* evaluation shallow).
RECURSIVE LowerRange(_, _, _)
LowerRange(s, lo, hi) ==
  IF lo > hi THEN ""
  ELSE IF lo = hi THEN LowerChar(At(s, lo))
  ELSE LET mid == (lo + hi) \div 2
       IN LowerRange(s, lo, mid) \o LowerRange(s, mid + 1, hi)
\* str.lower()
Lower(s) == LowerRange(s, 1, Len(s))

RECURSIVE TitleRange(_, _, _)
TitleRange(s, lo, hi) ==
  IF lo > hi THEN ""
  ELSE IF lo = hi
       THEN (IF IsCased(At(s, lo - 1)) THEN LowerChar(At(s, lo)) ELSE UpperChar(At(s, lo)))
  ELSE LET mid == (lo + hi) \div 2
       IN TitleRange(s, lo, mid) \o TitleRange(s, mid + 1, hi)
\* str.title(): a cased character is upper-cased after an uncased one and
\* lower-cased after a cased one.
Title(s) == TitleRange(s, 1, Len(s))

\* str.capitalize()
Capitalize(s) ==
  IF s = "" THEN "" ELSE UpperChar(At(s, 1)) \o Lower(SubSeq(s, 2, Len(s)))

\* str.isupper(): some cased character, and no lower-case one.
IsUpperStr(s) ==
  /\ \E i \in 1..Len(s) : IsUpperChar(At(s, i))
  /\ \A i \in 1..Len(s) : ~IsLowerChar(At(s, i))

\* needle in hay
Contains(hay, needle) ==
  \E i \in 1..(Len(hay) - Len(needle) + 1) : SubSeq(hay, i, i + Len(needle) - 1) = needle

\* str.endswith
EndsWith(s, suf) ==
  Len(s) >= Len(suf) /\ SubSeq(s, Len(s) - Len(suf) + 1, Len(s)) = suf

SetMin(S) == CHOOSE x \in S : \A y \in S : x <= y
SetMax(S) == CHOOSE x \in S : \A y \in S : x >= y
\* First position >= i of s that holds no whitespace, or Len(s)+1.
LStripFrom(s, i) == SetMin({j \in i..Len(s) : At(s, j) \notin Space} \cup {Len(s) + 1})
\* Last position <= j of s that holds no whitespace, or 0.
RStripFrom(s, j) == SetMax({k \in 1..j : At(s, k) \notin Space} \cup {0})
\* str.strip()
Strip(s) == SubSeq(s, LStripFrom(s, 1), RStripFrom(s, Len(s)))

\* First index >= i of the one-character string c in s, or Len(s)+1.
IndexOf(s, c, i) == SetMin({j \in i..Len(s) : At(s, j) = c} \cup {Len(s) + 1})

\* text.split('\n'): the lines, empty ones included.
RECURSIVE SplitLinesFrom(_, _)
SplitLinesFrom(s, i) ==
  LET j == IndexOf(s, "\n", i) IN
    IF j > Len(s) THEN << SubSeq(s, i, Len(s)) >>
    ELSE << SubSeq(s, i, j - 1) >> \o SplitLinesFrom(s, j + 1)
SplitLines(s) == SplitLinesFrom(s, 1)

\* End (exclusive) of the run of non-space characters starting at i.
WordEnd(s, i) == SetMin({j \in i..Len(s) : At(s, j) \in Space} \cup {Len(s) + 1})
\* str.split(): the whitespace-separated words.
RECURSIVE SplitWordsFrom(_, _)
SplitWordsFrom(s, i) ==
  LET b == LStripFrom(s, i) IN
    IF b > Len(s) THEN << >>
    ELSE LET e == WordEnd(s, b) IN << SubSeq(s, b, e - 1) >> \o SplitWordsFrom(s, e)
SplitWords(s) == SplitWordsFrom(s, 1)

\* sep.join(words)
RECURSIVE Join(_, _)
Join(ws, sep) ==
  IF Len(ws) = 0 THEN ""
  ELSE IF Len(ws) = 1 THEN ws[1]
  ELSE ws[1] \o sep \o Join(Tail(ws), sep)

\* int(s) for a string of decimal digits.
DigitVal ==
  ("0" :> 0) @@ ("1" :> 1) @@ ("2" :> 2) @@ ("3" :> 3) @@ ("4" :> 4) @@
  ("5" :> 5) @@ ("6" :> 6) @@ ("7" :> 7) @@ ("8" :> 8) @@ ("9" :> 9)
RECURSIVE IntOfFrom(_, _, _)
IntOfFrom(s, i, acc) ==
  IF i > Len(s) THEN acc ELSE IntOfFrom(s, i + 1, acc * 10 + DigitVal[At(s, i)])
IntOf(s) == IntOfFrom(s, 1, 0)

\* str(n) for n >= 0.
DigitStr == <<"0","1","2","3","4","5","6","7","8","9">>
RECURSIVE StrOf(_)
StrOf(n) == IF n < 10 THEN DigitStr[n + 1] ELSE StrOf(n \div 10) \o DigitStr[(n % 10) + 1]

\* Number of characters of s that are digits: len(re.sub(r'\D', '', s)).
CountDigits(s) == Cardinality({i \in 1..Len(s) : At(s, i) \in Digits})

\* ------------------------------------------------------------------------
\* Regular expressions (Python's re: backtracking, greedy, first alternative
\* first).  A pattern is a sequence of nodes.  A thread is one way of having
\* matched a prefix of the pattern: the position e reached in the text and
\* the capture groups.  The threads are kept in the order in which the
\* backtracking matcher would try them, so that the first thread that gets
\* through the whole pattern is the match that re returns.
\* ------------------------------------------------------------------------
Lit(str) == [t |-> "lit", s |-> str]
\* {lo,hi} greedy repetitions of one character of the class cs
Cls(cs, lo, hi) == [t |-> "cls", cs |-> cs, lo |-> lo, hi |-> hi]
One(cs) == Cls(cs, 1, 1)
\* (?:p)?
Opt(p) == [t |-> "opt", p |-> p]
\* (?:p1|p2|...)
Alt(ps) == [t |-> "alt", ps |-> ps]
\* capture group number g around p
Grp(g, p) == << [t |-> "open", g |-> g] >> \o p \o << [t |-> "close", g |-> g] >>
\* \b
WB == [t |-> "wb"]
\* ^ (without re.MULTILINE)
Bos == [t |-> "bos"]
\* $ (without re.MULTILINE)
Eos == [t |-> "eos"]
\* Upper limit of the unbounded quantifiers * and +: no text is longer.
Inf == 1000
\* \d+ , \s* , \d
DigitsP == Cls(Digits, 1, Inf)
Ws == Cls(Space, 0, Inf)
Digit == One(Digits)

NoCaps == [g \in 1..5 |-> <<0, 0>>]
Fail == [ok |-> FALSE, b |-> 0, e |-> 0, caps |-> NoCaps]

\* Length of the run of characters of cs in s from position i, at most hi.
RECURSIVE Run(_, _, _, _)
Run(cs, s, i, hi) ==
  IF hi = 0 \/ i > Len(s) \/ At(s, i) \notin cs THEN 0 ELSE 1 + Run(cs, s, i + 1, hi - 1)

\* A quick test that spares the attempt of an alternative: a pattern that
\* begins with a literal cannot match at i unless s holds its first character.
CanStartAt(p, s, i) ==
  Len(p) = 0 \/ p[1].t # "lit" \/ At(s, i) = SubSeq(p[1].s, 1, 1)

\* ths without the threads that stand at the position of an earlier thread.
Prune(ths) ==
  LET keep == {k \in 1..Len(ths) : \A j \in 1..(k - 1) : ths[j].e # ths[k].e}
      Kept(k) == k \in keep
  IN IF Cardinality(keep) = Len(ths) THEN ths
     ELSE LET idx == SelectSeq([k \in 1..Len(ths) |-> k], Kept)
          IN [n \in 1..Len(idx) |-> ths[idx[n]]]

\* The threads of th after a greedy repetition {n.lo, n.hi} when the run of
\* characters of the class has length k: the longest repetition first.
ClsThreads(n, th, k) ==
  IF k < n.lo THEN << >>
  ELSE [j \in 1..(k - n.lo + 1) |-> [th EXCEPT !.e = th.e + k - j + 1]]

RECURSIVE Step(_, _, _)
RECURSIVE StepAll(_, _, _, _, _)
RECURSIVE RunNodes(_, _, _, _, _)
RECURSIVE AltRange(_, _, _, _, _)
\* The threads that thread th becomes by matching node n, in order of
\* preference.
Step(n, s, th) ==
  CASE n.t = "lit" ->
         IF th.e + Len(n.s) - 1 <= Len(s) /\ SubSeq(s, th.e, th.e + Len(n.s) - 1) = n.s
         THEN << [th EXCEPT !.e = th.e + Len(n.s)] >> ELSE << >>
    [] n.t = "cls" -> ClsThreads(n, th, Run(n.cs, s, th.e, n.hi))
    [] n.t = "opt" -> RunNodes(n.p, 1, Len(n.p), s, << th >>) \o << th >>
    [] n.t = "alt" -> AltRange(n.ps, 1, Len(n.ps), s, th)
    [] n.t = "open" -> << [th EXCEPT !.caps[n.g] = <<th.e, 0>>] >>
    [] n.t = "close" -> << [th EXCEPT !.caps[n.g] = <<th.caps[n.g][1], th.e>>] >>
    [] n.t = "wb" ->
         IF (At(s, th.e - 1) \in WordChars) # (At(s, th.e) \in WordChars)
         THEN << th >> ELSE << >>
    [] n.t = "bos" -> IF th.e = 1 THEN << th >> ELSE << >>
    [] n.t = "eos" ->
         IF th.e = Len(s) + 1 \/ (th.e = Len(s) /\ At(s, th.e) = "\n")
         THEN << th >> ELSE << >>
\* Step for the threads ths[lo..hi], in order.
StepAll(n, s, ths, lo, hi) ==
  IF lo > hi THEN << >>
  ELSE IF lo = hi THEN Step(n, s, ths[lo])
  ELSE LET mid == (lo + hi) \div 2
       IN StepAll(n, s, ths, lo, mid) \o StepAll(n, s, ths, mid + 1, hi)
\* The threads ths after the nodes p[lo..hi].  Of two threads at the same
\* position only the first is kept: what follows succeeds for both or for
\* none, and the backtracking matcher stops at the first.
RunNodes(p, lo, hi, s, ths) ==
  IF lo > hi \/ Len(ths) = 0 THEN ths
  ELSE IF lo = hi
       THEN IF Len(ths) = 1 /\ p[lo].t \notin {"opt", "alt"}
            THEN Step(p[lo], s, ths[1])
            ELSE Prune(StepAll(p[lo], s, ths, 1, Len(ths)))
  ELSE LET mid == (lo + hi) \div 2
       IN RunNodes(p, mid + 1, hi, s, RunNodes(p, lo, mid, s, ths))
\* The alternatives ps[lo..hi] from thread th, the first alternative first.
AltRange(ps, lo, hi, s, th) ==
  IF lo > hi THEN << >>
  ELSE IF lo = hi
       THEN IF CanStartAt(ps[lo], s, th.e) THEN RunNodes(ps[lo], 1, Len(ps[lo]), s, << th >>)
            ELSE << >>
  ELSE LET mid == (lo + hi) \div 2
       IN AltRange(ps, lo, mid, s, th) \o AltRange(ps, mid + 1, hi, s, th)

\* The characters with which a match of the nodes p can begin; "" is in the
\* set when a match can be empty or begin with an assertion only.
RECURSIVE FirstChars(_)
FirstChars(p) ==
  IF Len(p) = 0 THEN {""}
  ELSE LET n == Head(p)
           rest == Tail(p)
       IN CASE n.t = "lit" -> {SubSeq(n.s, 1, 1)}
            [] n.t = "cls" -> IF n.lo > 0 THEN n.cs ELSE n.cs \cup FirstChars(rest)
            [] n.t = "opt" -> FirstChars(n.p \o rest) \cup FirstChars(rest)
            [] n.t = "alt" -> UNION {FirstChars(n.ps[j] \o rest) : j \in 1..Len(n.ps)}
            [] OTHER -> FirstChars(rest)

\* Characters that every match of the nodes p holds: those of the literals
\* outside the optional parts, and those common to all the alternatives.
RECURSIVE Needs(_)
RECURSIVE NodeNeeds(_)
Needs(p) == IF Len(p) = 0 THEN {} ELSE NodeNeeds(Head(p)) \cup Needs(Tail(p))
NodeNeeds(n) ==
  CASE n.t = "lit" -> {SubSeq(n.s, k, k) : k \in 1..Len(n.s)}
    [] n.t = "cls" -> IF n.lo > 0 /\ Cardinality(n.cs) = 1 THEN n.cs ELSE {}
    [] n.t = "alt" -> {c \in Needs(n.ps[1]) : \A j \in 2..Len(n.ps) : c \in Needs(n.ps[j])}
    [] OTHER -> {}

\* A compiled pattern: its nodes, the characters a match can begin with
\* (used to skip the start positions where no match can begin) and the
\* characters every match holds (used to skip the texts without them).
Re(p) == [nodes |-> p, first |-> FirstChars(p), need |-> Needs(p)]

\* The match object made from the threads that got through the pattern
\* from position i: the first thread is the match.
MatchOf(i, ths) ==
  IF Len(ths) = 0 THEN Fail
  ELSE [ok |-> TRUE, b |-> i, e |-> ths[1].e, caps |-> ths[1].caps]
\* The match of re in s that starts at position i.
Match(re, s, i) ==
  MatchOf(i, RunNodes(re.nodes, 1, Len(re.nodes), s, << [e |-> i, caps |-> NoCaps] >>))

\* re.match(re, s)
ReMatch(re, s) == Match(re, s, 1)

\* re.search(re, s) from position i on: the match at the leftmost position
\* where there is one.
RECURSIVE SearchRange(_, _, _, _)
RECURSIVE OrSearch(_, _, _, _, _)
\* The match at the leftmost start position in lo..hi.
SearchRange(re, s, lo, hi) ==
  IF lo > hi THEN Fail
  ELSE IF lo = hi
       THEN IF "" \in re.first \/ At(s, lo) \in re.first THEN Match(re, s, lo) ELSE Fail
  ELSE OrSearch(SearchRange(re, s, lo, (lo + hi) \div 2), re, s, (lo + hi) \div 2 + 1, hi)
\* left if it is a match, else the leftmost match that starts in lo..hi.
OrSearch(left, re, s, lo, hi) == IF left.ok THEN left ELSE SearchRange(re, s, lo, hi)
\* s holds the character c at position i or later.
HasChar(s, c, i) == \E k \in i..Len(s) : SubSeq(s, k, k) = c
SearchFrom(re, s, i) ==
  IF \E c \in re.need : ~HasChar(s, c, i) THEN Fail ELSE SearchRange(re, s, i, Len(s) + 1)
ReSearch(re, s) == SearchFrom(re, s, 1)

\* re.finditer(re, s): the successive non-overlapping matches, left to right.
RECURSIVE FindIterFrom(_, _, _)
RECURSIVE FindIterAfter(_, _, _)
FindIterFrom(re, s, i) == FindIterAfter(re, s, SearchFrom(re, s, i))
\* r is the next match: the search resumes at its end (one further when the
\* match is empty).
FindIterAfter(re, s, r) ==
  IF ~r.ok THEN << >>
  ELSE << r >> \o FindIterFrom(re, s, IF r.e > r.b THEN r.e ELSE r.e + 1)
FindIter(re, s) == FindIterFrom(re, s, 1)

\* m.group(0) and m.group(g); "" stands for None (the group did not take part).
Group0(s, m) == SubSeq(s, m.b, m.e - 1)
GroupSet(m, g) == m.caps[g][1] > 0 /\ m.caps[g][2] > 0
Group(s, m, g) == IF GroupSet(m, g) THEN SubSeq(s, m.caps[g][1], m.caps[g][2] - 1) ELSE ""


\* ------------------------------------------------------------------------
\* parse_cv_metadata: guard and contacts
\* ------------------------------------------------------------------------
\* (variant: experience is initialised to None, written "")
DefaultMetadata_NoExperience ==
  [ emails |-> {}, phones |-> << >>, skills |-> << >>, sections |-> {},
    name |-> "Inconnu", specialty |-> "À définir", experience |-> "" ]
\* The metadata dictionary as initialised at the top of parse_cv_metadata.
\* emails and sections are lists made from a set in the source; they are sets
\* here.  phones is kept as a list because it is truncated.
DefaultMetadata ==
  [ emails |-> {}, phones |-> << >>, skills |-> << >>, sections |-> {},
    name |-> "Inconnu", specialty |-> "À définir", experience |-> "0" ]

\* (variant: the sentinel is looked for at the start of the text only)
IsEmptyOrError_AtStart(text) ==
  text = "" \/ Strip(text) = "" \/ SubSeq(text, 1, Min(7, Len(text))) = "[ERREUR"
\* not text or not text.strip() or "[ERREUR" in text
IsEmptyOrError(text) == text = "" \/ Strip(text) = "" \/ Contains(text, "[ERREUR")

\* The substrings of s matched by p: re.findall for a pattern without group.
Groups0(s, ms) == [k \in 1..Len(ms) |-> Group0(s, ms[k])]
FindAll(p, s) == Groups0(s, FindIter(p, s))
SeqToSet(sq) == {sq[k] : k \in 1..Len(sq)}

\* [a-zA-Z0-9._%+-]+@[a-zA-Z0-9.-]+\.[a-zA-Z]{2,}
email_pattern ==
  Re(<< Cls(LowerAZ \cup UpperAZ \cup Digits \cup {".", "_", "%", "+", "-"}, 1, Inf), Lit("@"),
        Cls(LowerAZ \cup UpperAZ \cup Digits \cup {".", "-"}, 1, Inf), Lit("."),
        Cls(LowerAZ \cup UpperAZ, 2, Inf) >>)
\* set(re.findall(email_pattern, text))
Emails(text) == SeqToSet(FindAll(email_pattern, text))

\* [\s.-] and [-.\s]
PhoneSep == Space \cup {".", "-"}
\* (?:(?:\+|00)33|0)\s*[1-9](?:[\s.-]*\d{2}){4}
\*   |(?:\+?\d{1,3}[-.\s]?)?\(?\d{2,4}\)?[-.\s]?\d{2,4}[-.\s]?\d{2,4}(?:[-.\s]?\d{2,4})?
phone_pattern ==
  Re(<< Alt(<< << Alt(<< << Alt(<< <<Lit("+")>>, <<Lit("00")>> >>), Lit("33") >>, << Lit("0") >> >>),
               Ws, One(Digits \ {"0"}),
               Cls(PhoneSep, 0, Inf), Cls(Digits, 2, 2), Cls(PhoneSep, 0, Inf), Cls(Digits, 2, 2),
               Cls(PhoneSep, 0, Inf), Cls(Digits, 2, 2), Cls(PhoneSep, 0, Inf), Cls(Digits, 2, 2) >>,
            << Opt(<< Opt(<<Lit("+")>>), Cls(Digits, 1, 3), Cls(PhoneSep, 0, 1) >>),
               Opt(<<Lit("(")>>), Cls(Digits, 2, 4), Opt(<<Lit(")")>>), Cls(PhoneSep, 0, 1),
               Cls(Digits, 2, 4), Cls(PhoneSep, 0, 1), Cls(Digits, 2, 4),
               Opt(<< Cls(PhoneSep, 0, 1), Cls(Digits, 2, 4) >>) >> >>) >>)
\* ^\s*\d{4}\s*[-\u2013]\s*\d{4}\s*$
year_range_pattern ==
  Re(<< Bos, Ws, Cls(Digits, 4, 4), Ws, One({"-", EnDash}), Ws, Cls(Digits, 4, 4), Ws, Eos >>)
\* ^\s*(19|20)\d{2}\s*$
year_pattern ==
  Re(<< Bos, Ws, Alt(<< <<Lit("19")>>, <<Lit("20")>> >>), Cls(Digits, 2, 2), Ws, Eos >>)
\* ^[\s]*[+0(]
phone_start_pattern == Re(<< Bos, Ws, One({"+", "0", "("}) >>)

\* The test of the filter loop on one candidate p: TRUE when p.strip() is
\* appended to filtered_phones.
\* (variant: without the test on the number of digits)
IsValidClean_AnyLength(p_clean) ==
  /\ ~ReMatch(year_range_pattern, p_clean).ok
  /\ ~ReMatch(year_pattern, p_clean).ok
  /\ ReMatch(phone_start_pattern, p_clean).ok
IsValidClean(p_clean) ==
  /\ ~(CountDigits(p_clean) < 8)
  /\ ~ReMatch(year_range_pattern, p_clean).ok
  /\ ~ReMatch(year_pattern, p_clean).ok
  /\ ReMatch(phone_start_pattern, p_clean).ok
IsValidPhone(p) == IsValidClean(Strip(p))

\* [p.strip() for p in kept]
StripAll(kept) == [k \in 1..Len(kept) |-> Strip(kept[k])]
\* filtered_phones
FilteredPhones(text) == StripAll(SelectSeq(FindAll(phone_pattern, text), IsValidPhone))

\* set(sq) for a list sq, written as the list of its first occurrences.
Distinct(sq) ==
  LET firsts == {k \in 1..Len(sq) : \A j \in 1..(k - 1) : sq[j] # sq[k]}
      Keep(k) == k \in firsts
  IN [n \in 1..Cardinality(firsts) |-> sq[SelectSeq([k \in 1..Len(sq) |-> k], Keep)[n]]]
\* lst[:5] for lst = list(S): the iteration order of a set of strings follows
\* their hashes, which are salted anew in every process, so the slice may hold
\* any 5 elements of S (all of S when it has no more than 5).
\* (variant: the slice [:3])
FirstFive_Three(S) == {T \in SUBSET S : Cardinality(T) = Min(3, Cardinality(S))}
FirstFive(S) == {T \in SUBSET S : Cardinality(T) = Min(5, Cardinality(S))}
\* The values lst[:5] can take for lst = list(set(filtered_phones)), given
\* the list distinct of the distinct phones.  The order inside the list is
\* not modelled: the kept phones are listed as they appear in the text.
Sublists(distinct) ==
  {SelectSeq(distinct, LAMBDA p : p \in T) : T \in FirstFive(SeqToSet(distinct))}

\* ------------------------------------------------------------------------
\* parse_cv_metadata: skills
\* ------------------------------------------------------------------------
skill_keywords ==
  << "Python", "JavaScript", "Java", "C++", "C#", "PHP", "Ruby", "Swift", "TypeScript", "Go",
     "Rust", "Kotlin", "SQL", "React", "Angular", "Vue", "Django", "Flask", "Docker",
     "Kubernetes", "AWS", "Azure", "GCP", "Terraform", "Ansible" >>
\* (variant: the skill is searched as a substring, without the two \b)
skill_patterns_Substring ==
  [k \in 1..Len(skill_keywords) |-> Re(<< Lit(Lower(skill_keywords[k])) >>)]
\* r'\b' + re.escape(skill.lower()) + r'\b' for each skill
skill_patterns == [k \in 1..Len(skill_keywords) |-> Re(<< WB, Lit(Lower(skill_keywords[k])), WB >>)]
\* The skills for which re.search(pattern, text_lower) succeeds, in the order
\* of skill_keywords.
Skills(text_lower) ==
  LET found == {k \in 1..Len(skill_keywords) : ReSearch(skill_patterns[k], text_lower).ok}
      IsFound(skill) == \E k \in found : skill_keywords[k] = skill
  IN SelectSeq(skill_keywords, IsFound)

\* ------------------------------------------------------------------------
\* parse_cv_metadata: name
\* ------------------------------------------------------------------------
\* lines = [l.strip() for l in text.split('\n') if l.strip()]
StrippedLines(text) == SelectSeq(StripAll(SplitLines(text)), LAMBDA l : l # "")

skip_words ==
  << "experience", "expérience", "formation", "compétence", "contact", "profil",
     "adresse", "email", "tel", "téléphone", "www", "http", "@", "cv", "curriculum",
     "ingénieur", "développeur", "engineer", "developer", "manager", "consultant",
     "stage", "poste", "emploi", "date", "lieu", "ville", "pays",
     "preparatory", "préparatoire", "cycle", "physic", "chemistry", "math",
     "national", "diploma", "diplôme", "bachelor", "master", "licence",
     "school", "école", "university", "université", "institute", "institut",
     "education", "overview", "profile", "summary", "objective",
     "computer", "science", "engineering", "industrial", "degree",
     "sfax", "tunis", "tunisia", "france", "paris", "lyon" >>
\* any(sw in s for sw in skip_words)
HasSkipWord(s) == \E k \in 1..Len(skip_words) : Contains(s, skip_words[k])

separators == << "|", EnDash, EmDash >>

\* line.split(sep, 1) for a line that contains the one-character sep
SplitOnce(line, sep) ==
  LET j == IndexOf(line, sep, 1)
  IN << SubSeq(line, 1, j - 1), SubSeq(line, j + 1, Len(line)) >>

\* The test made on one line and one separator by heuristic 0: TRUE when
\* the part left of the separator is taken as the name.
NamePartOk(name_part, name_words) ==
  /\ 2 <= Len(name_words) /\ Len(name_words) <= 3 /\ Len(name_part) < 40
  /\ ~HasSkipWord(Lower(name_part))
  /\ \A k \in 1..Len(name_words) : IsUpperChar(At(name_words[k], 1))
SeparatorNameOk(line, sep) ==
  /\ Contains(line, sep)
  /\ \E name_part \in {Strip(SplitOnce(line, sep)[1])} :
       NamePartOk(name_part, SplitWords(name_part))

\* Index of the first separator, in the order of the list, that passes on
\* this line; 0 if none does.
FirstSeparator(line) ==
  SetMin({k \in 1..Len(separators) : SeparatorNameOk(line, separators[k])}
         \cup {Len(separators) + 1}) % (Len(separators) + 1)

\* Heuristic 0 ("Name | Title") over lines[:10].  name_index is the position
\* of the name line in lines, counted from 1; 0 stands for the -1 of the source.
SeparatorResult(i, name_part, title_part) ==
  [ name_index |-> i, name |-> name_part, title |-> title_part,
    found_spec |-> (title_part # "" /\ Len(title_part) > 3) ]
SeparatorSplit(i, parts) == SeparatorResult(i, Strip(parts[1]), Strip(parts[2]))
\* seps[i] is the index of the separator that passes on lines[i], 0 if none.
SeparatorFirstHit(lines, seps, hits) ==
  IF hits = {} THEN [name_index |-> 0, name |-> "", title |-> "", found_spec |-> FALSE]
  ELSE SeparatorSplit(SetMin(hits), SplitOnce(lines[SetMin(hits)], separators[seps[SetMin(hits)]]))
SeparatorHits(lines, seps) ==
  SeparatorFirstHit(lines, seps, {i \in 1..Len(seps) : seps[i] # 0})
SeparatorHeuristic(lines) ==
  SeparatorHits(lines, [i \in 1..Min(10, Len(lines)) |-> FirstSeparator(lines[i])])

\* [A-ZÀ-\u0178]: the range U+00C0..U+0178 also holds the lower-case accented letters
UpperClass == UpperAZ \cup UpperAcc \cup LowerAcc
\* [a-zà-ÿ\-]
LowerClass == LowerAZ \cup LowerAcc \cup {"-"}
WsP == Cls(Space, 1, Inf)
\* ^[A-ZÀ-\u0178][a-zà-ÿ\-]+\s+[A-ZÀ-\u0178][a-zà-ÿ\-]+(?:\s+[A-ZÀ-\u0178][a-zà-ÿ\-]+)?$
name_pattern_1 ==
  Re(<< Bos, One(UpperClass), Cls(LowerClass, 1, Inf), WsP, One(UpperClass), Cls(LowerClass, 1, Inf),
        Opt(<< WsP, One(UpperClass), Cls(LowerClass, 1, Inf) >>), Eos >>)
\* ^[A-ZÀ-\u0178\-]{2,}\s+[A-ZÀ-\u0178\-]{2,}(?:\s+[A-ZÀ-\u0178\-]{2,})?$
name_pattern_2 ==
  Re(<< Bos, Cls(UpperClass \cup {"-"}, 2, Inf), WsP, Cls(UpperClass \cup {"-"}, 2, Inf),
        Opt(<< WsP, Cls(UpperClass \cup {"-"}, 2, Inf) >>), Eos >>)
\* ^[A-ZÀ-\u0178a-zà-ÿ\-]{2,}\s+[A-ZÀ-\u0178a-zà-ÿ\-]{2,}(?:\s+[A-ZÀ-\u0178a-zà-ÿ\-]{2,})?$
name_pattern_3 ==
  Re(<< Bos, Cls(UpperClass \cup LowerClass, 2, Inf), WsP, Cls(UpperClass \cup LowerClass, 2, Inf),
        Opt(<< WsP, Cls(UpperClass \cup LowerClass, 2, Inf) >>), Eos >>)
common_words == {"les", "des", "pour", "dans", "avec", "sur", "par", "une", "the", "and", "for"}

\* w.capitalize() if w.isupper() and len(w) > 2 else w
Recase(w) == IF IsUpperStr(w) /\ Len(w) > 2 THEN Capitalize(w) ELSE w

\* The body of the loop of heuristic 1 for one line: the name taken from the
\* line, or "" when the loop goes on to the next line.
LineShapeOf(line, words) ==
  IF ~(2 <= Len(words) /\ Len(words) <= 3 /\ Len(line) < 50) THEN ""
  ELSE IF HasSkipWord(Lower(line)) THEN ""
  ELSE IF ReMatch(name_pattern_1, line).ok THEN line
  ELSE IF ReMatch(name_pattern_2, line).ok THEN Title(line)
  ELSE IF /\ ReMatch(name_pattern_3, line).ok
          /\ \E k \in 1..Len(words) : IsUpperChar(At(words[k], 1))
          /\ ~\E k \in 1..Len(words) : Lower(words[k]) \in common_words
       THEN Join([k \in 1..Len(words) |-> Recase(words[k])], " ")
  ELSE ""
LineShapeName(line) == LineShapeOf(line, SplitWords(line))

\* names[i] is the name taken from lines[i], "" if none: the first one wins.
LineShapeFirstHit(names, hits) ==
  IF hits = {} THEN [name_index |-> 0, name |-> ""]
  ELSE [name_index |-> SetMin(hits), name |-> names[SetMin(hits)]]
LineShapeHits(names) == LineShapeFirstHit(names, {i \in 1..Len(names) : names[i] # ""})
\* Heuristic 1 over lines[:15].
LineShapeHeuristic(lines) ==
  LineShapeHits([i \in 1..Min(15, Len(lines)) |-> LineShapeName(lines[i])])

\* The outcome of the name detection when heuristic 0 gave h0 (heuristic 1
\* runs only if name_index is still -1) ...
NameAfterLineShape(h1) ==
  [ name |-> IF h1.name_index # 0 THEN h1.name ELSE DefaultMetadata.name,
    name_index |-> h1.name_index,
    specialty |-> DefaultMetadata.specialty, found_spec |-> FALSE ]
\* (variant: heuristic 1 runs first, heuristic 0 only if it found nothing)
NameAfterSeparator_LineShapeFirst(lines, h0) ==
  IF LineShapeHeuristic(lines).name_index # 0 \/ h0.name_index = 0
  THEN NameAfterLineShape(LineShapeHeuristic(lines))
  ELSE [ name |-> h0.name, name_index |-> h0.name_index,
         specialty |-> IF h0.found_spec THEN h0.title ELSE DefaultMetadata.specialty,
         found_spec |-> h0.found_spec ]
NameAfterSeparator(lines, h0) ==
  IF h0.name_index # 0
  THEN [ name |-> h0.name, name_index |-> h0.name_index,
         specialty |-> IF h0.found_spec THEN h0.title ELSE DefaultMetadata.specialty,
         found_spec |-> h0.found_spec ]
  ELSE NameAfterLineShape(LineShapeHeuristic(lines))
\* Name detection: [name, name_index, specialty, found_spec] after both heuristics.
DetectName(lines) == NameAfterSeparator(lines, SeparatorHeuristic(lines))

\* ------------------------------------------------------------------------
\* parse_cv_metadata: specialty
\* ------------------------------------------------------------------------
title_keywords ==
  << "ingénieur", "développeur", "engineer", "developer", "analyst", "manager", "designer",
     "consultant", "architecte", "technicien", "expert", "specialist", "scientist", "lead",
     "directeur", "data", "devops", "cloud", "fullstack", "full stack", "backend", "frontend",
     "mobile", "sécurité", "security", "réseau", "network", "système", "system", "admin",
     "integration", "intégration", "bi ", "business intelligence" >>

\* The test of heuristic 1 on one line after the name.
IsTitleLine(potential_title) ==
  /\ 3 < Len(potential_title) /\ Len(potential_title) < 80
  /\ ~EndsWith(potential_title, ".")
  /\ \E k \in 1..Len(title_keywords) : Contains(Lower(potential_title), title_keywords[k])

\* Heuristic 1: the first title line among lines[name_index+1 .. name_index+3]
\* (positions counted from 1), or "" if there is none.
FirstLine(lines, hits) == IF hits = {} THEN "" ELSE lines[SetMin(hits)]
PostNameSpecialty(lines, name_index) ==
  FirstLine(lines, {i \in (name_index + 1)..Min(name_index + 3, Len(lines)) : IsTitleLine(lines[i])})

specialties ==
  << "Data Integration Engineer", "Machine Learning Engineer",
     "Data Scientist", "Data Analyst", "Data Engineer",
     "Business Intelligence", "BI Developer", "BI Analyst",
     "Site Reliability Engineer", "Full Stack Developer", "Fullstack Developer",
     "Développeur Fullstack", "Développeur Full Stack",
     "Ingénieur Data", "Ingénieur Cloud", "Ingénieur DevOps", "Ingénieur Système",
     "Ingénieur Réseau", "Ingénieur Sécurité", "Ingénieur Logiciel",
     "Cloud Engineer", "Cloud Architect", "Security Engineer",
     "Développeur Backend", "Backend Developer", "Développeur Frontend", "Frontend Developer",
     "Développeur Mobile", "iOS Developer", "Android Developer",
     "Chef de projet", "Project Manager", "Product Manager", "Scrum Master",
     "UX Designer", "UI Designer", "UX/UI Designer", "UX/UI",
     "DevOps", "SysOps",
     "Développeur", "Ingénieur", "Designer", "Consultant", "Architecte",
     "Manager", "Analyste", "Administrateur", "Technicien",
     "Commercial", "Comptable", "RH", "Marketing" >>
\* The lower-cased catalogue (spec.lower() in the loops).
specialties_lower == [k \in 1..Len(specialties) |-> Lower(specialties[k])]

\* for spec in specialties: if spec.lower() in s: return spec; "" if none.
FirstSpecialtyIn(s) ==
  FirstLine(specialties, {k \in 1..Len(specialties) : Contains(s, specialties_lower[k])})

\* a if it is not empty, else b
OrElse(a, b) == IF a # "" THEN a ELSE b
\* (variant: the whole text is searched at once)
CatalogueSpecialty_WholeText(text_lower) == FirstSpecialtyIn(text_lower)
\* Heuristic 2: the header (text_lower[:500]) first, then the whole text.
CatalogueSpecialty(text_lower) ==
  OrElse(FirstSpecialtyIn(Slice(text_lower, 1, 500)), FirstSpecialtyIn(text_lower))

\* (variant: found_spec is not consulted)
DetectSpecialty_Always(lines, text_lower, nd) ==
  OrElse(IF nd.name_index # 0 THEN PostNameSpecialty(lines, nd.name_index) ELSE "",
         OrElse(CatalogueSpecialty(text_lower), nd.specialty))
\* The specialty, given the outcome nd of the name detection.
DetectSpecialty(lines, text_lower, nd) ==
  IF nd.found_spec THEN nd.specialty
  ELSE OrElse(IF nd.name_index # 0 THEN PostNameSpecialty(lines, nd.name_index) ELSE "",
              OrElse(CatalogueSpecialty(text_lower), DefaultMetadata.specialty))

\* ------------------------------------------------------------------------
\* parse_cv_metadata: years of experience
\* ------------------------------------------------------------------------
\* exp_patterns, applied to the lower-cased text; group 1 is the number.
exp_patterns ==
  << \* (\d+)\s*(?:ans|années?)\s*d\'exp[eé]rience
     Re(Grp(1, <<DigitsP>>) \o
          << Ws, Alt(<< <<Lit("ans")>>, <<Lit("année"), Opt(<<Lit("s")>>)>> >>), Ws,
             Lit("d'exp"), One({"e", "é"}), Lit("rience") >>),
     \* (\d+)\s*(?:ans|ann[eé]es?)\s*exp
     Re(Grp(1, <<DigitsP>>) \o
          << Ws, Alt(<< <<Lit("ans")>>,
                        <<Lit("ann"), One({"e", "é"}), Lit("e"), Opt(<<Lit("s")>>)>> >>), Ws,
             Lit("exp") >>),
     \* exp[eé]rience\s*(?:professionnelle)?\s*[:\s-]*\s*(\d+)\s*(?:ans|ann)
     Re(<< Lit("exp"), One({"e", "é"}), Lit("rience"), Ws, Opt(<<Lit("professionnelle")>>), Ws,
           Cls(Space \cup {":", "-"}, 0, Inf), Ws >> \o Grp(1, <<DigitsP>>) \o
          << Ws, Alt(<< <<Lit("ans")>>, <<Lit("ann")>> >>) >>),
     \* plus\s*de\s*(\d+)\s*(?:ans|ann)
     Re(<< Lit("plus"), Ws, Lit("de"), Ws >> \o Grp(1, <<DigitsP>>) \o
          << Ws, Alt(<< <<Lit("ans")>>, <<Lit("ann")>> >>) >>),
     \* expertise\s*[:\s-]*\s*(\d+)\s*(?:ans|ann)
     Re(<< Lit("expertise"), Ws, Cls(Space \cup {":", "-"}, 0, Inf), Ws >> \o
          Grp(1, <<DigitsP>>) \o << Ws, Alt(<< <<Lit("ans")>>, <<Lit("ann")>> >>) >>),
     \* (\d+)\s*(?:years?|yrs)\s*(?:of\s*)?exp
     Re(Grp(1, <<DigitsP>>) \o
          << Ws, Alt(<< <<Lit("year"), Opt(<<Lit("s")>>)>>, <<Lit("yrs")>> >>), Ws,
             Opt(<<Lit("of"), Ws>>), Lit("exp") >>),
     \* (\d+)\s*(?:years?|yrs)\s*(?:of\s*)?experience
     Re(Grp(1, <<DigitsP>>) \o
          << Ws, Alt(<< <<Lit("year"), Opt(<<Lit("s")>>)>>, <<Lit("yrs")>> >>), Ws,
             Opt(<<Lit("of"), Ws>>), Lit("experience") >>),
     \* senior\s*\(\s*(\d+)\s*\+\s*ans\s*\)
     Re(<< Lit("senior"), Ws, Lit("("), Ws >> \o Grp(1, <<DigitsP>>) \o
          << Ws, Lit("+"), Ws, Lit("ans"), Ws, Lit(")") >>) >>

\* for pattern in exp_patterns: match = re.search(pattern, text_lower);
\* if match: experience = match.group(1); break.  cur is the value kept when
\* no pattern matches; k is the index of the pattern tried.
\* The source runs the loop twice in a row (the block is duplicated): pass
\* counts the loops still to run after this one.
RECURSIVE ExplicitScan(_, _, _, _)
RECURSIVE ExplicitTry(_, _, _, _, _)
ExplicitScan(text_lower, cur, k, pass) ==
  IF k > Len(exp_patterns)
  THEN IF pass = 0 THEN cur ELSE ExplicitScan(text_lower, cur, 1, pass - 1)
  ELSE ExplicitTry(text_lower, cur, k, pass, ReSearch(exp_patterns[k], text_lower))
\* m is the result of the search of pattern k.
ExplicitTry(text_lower, cur, k, pass, m) ==
  IF m.ok
  THEN IF pass = 0 THEN Group(text_lower, m, 1)
       ELSE ExplicitScan(text_lower, Group(text_lower, m, 1), 1, pass - 1)
  ELSE ExplicitScan(text_lower, cur, k + 1, pass)
\* metadata['experience'] after the two loops.
ExplicitExperience(text_lower) == ExplicitScan(text_lower, "0", 1, 1)

months_map ==
  ("jan" :> 1) @@ ("fév" :> 2) @@ ("mar" :> 3) @@ ("avr" :> 4) @@ ("mai" :> 5) @@
  ("jui" :> 6) @@ ("jul" :> 7) @@ ("aoû" :> 8) @@ ("sep" :> 9) @@ ("oct" :> 10) @@
  ("nov" :> 11) @@ ("déc" :> 12) @@ ("feb" :> 2) @@ ("apr" :> 4) @@ ("jun" :> 6) @@
  ("aug" :> 8)
\* months_map.get(m_str[:3] if m_str else '', 1)
MonthOf(m_str) ==
  LET key == Slice(m_str, 1, 3)
  IN IF key \in DOMAIN months_map THEN months_map[key] ELSE 1

academic_keywords ==
  << "université", "university", "master", "licence", "bachelor", "baccalauréat", "bac ", "bac+",
     "diplôme", "école", "school", "formation", "étudiant", "student", "enseignement", "degree",
     "cursus", "académique", "education", "msc ", "phd", "doctorat", "professeur", "professor",
     "enseignant", "assistant", "lecturer", "stage", "internship", "trainee", "apprenti" >>
\* any(kw in s for kw in academic_keywords)
HasAcademic(s) == \E k \in 1..Len(academic_keywords) : Contains(s, academic_keywords[k])

month_regex ==
  Alt(<< <<Lit("janvier")>>, <<Lit("f"), One({"e", "é"}), Lit("vrier")>>, <<Lit("mars")>>,
         <<Lit("avril")>>, <<Lit("mai")>>, <<Lit("juin")>>, <<Lit("juillet")>>,
         <<Lit("ao"), One({"u", "û"}), Lit("t")>>, <<Lit("septembre")>>, <<Lit("octobre")>>,
         <<Lit("novembre")>>, <<Lit("d"), One({"e", "é"}), Lit("cembre")>>,
         <<Lit("january")>>, <<Lit("february")>>, <<Lit("march")>>, <<Lit("april")>>,
         <<Lit("may")>>, <<Lit("june")>>, <<Lit("july")>>, <<Lit("august")>>,
         <<Lit("september")>>, <<Lit("october")>>, <<Lit("november")>>, <<Lit("december")>>,
         <<Lit("jan"), Opt(<<Lit("v")>>)>>, <<Lit("f"), One({"e", "é"}), Lit("v"), Opt(<<Lit("r")>>)>>,
         <<Lit("mar")>>, <<Lit("apr")>>, <<Lit("jun")>>, <<Lit("jul")>>, <<Lit("aug")>>,
         <<Lit("sep")>>, <<Lit("oct")>>, <<Lit("nov")>>, <<Lit("d"), One({"e", "é"}), Lit("c")>> >>)
\* \b(?:20[0-2]\d|19[7-9]\d)\b
year_regex ==
  << WB, Alt(<< <<Lit("20"), One({"0", "1", "2"}), Digit>>,
                <<Lit("19"), One({"7", "8", "9"}), Digit>> >>), WB >>
\* (?:pr[eé]sent|aujourd|maintenant|today|actuel|en cours|now)
present_regex ==
  Alt(<< <<Lit("pr"), One({"e", "é"}), Lit("sent")>>, <<Lit("aujourd")>>, <<Lit("maintenant")>>,
         <<Lit("today")>>, <<Lit("actuel")>>, <<Lit("en cours")>>, <<Lit("now")>> >>)
\* ({month})?\s*({year})\s*[-\u2013\u2014àau]t?o?\s*({present}|(?:({month})?\s*({year})))
range_pattern ==
  Re(<< Opt(Grp(1, <<month_regex>>)), Ws >> \o Grp(2, year_regex) \o
     << Ws, One({"-", EnDash, EmDash, "à", "a", "u"}), Opt(<<Lit("t")>>), Opt(<<Lit("o")>>), Ws >> \o
     Grp(3, << Alt(<< <<present_regex>>,
                      << Opt(Grp(4, <<month_regex>>)), Ws >> \o Grp(5, year_regex) >>) >>))

\* The words looked for in end_part to recognise an open-ended range.
present_words == << "present", "aujourd", "maintenant", "today", "actuel", "en cours", "now" >>
IsPresentEnd(end_part) == \E k \in 1..Len(present_words) : Contains(end_part, present_words[k])

\* context_text of line i: the lower-cased lines max(0, i-3)..i, each followed
\* by a space.
RECURSIVE ContextText(_, _, _)
ContextText(lines, j, i) ==
  IF j > i THEN "" ELSE Lower(lines[j]) \o " " \o ContextText(lines, j + 1, i)
\* (variant: the context is the line alone)
AcademicContext_LineOnly(lines, i) == HasAcademic(ContextText(lines, i, i))
AcademicContext(lines, i) == HasAcademic(ContextText(lines, Max(1, i - 3), i))

\* The body of "for m in matches" for one match m of range_pattern in
\* low_line: the period appended to periods, or none.  now = <<year, month>>.
\* A period is kept with the index of its line.
PeriodIfValid(i, start, end) ==
  IF 0 < end - start /\ end - start < 480
  THEN << [line |-> i, start |-> start, end |-> end] >> ELSE << >>
\* The period when the end is "present" or not, y2_str being group 5.
PeriodOfEnd(low_line, m, i, now, is_present, y2_str) ==
  IF ~is_present /\ y2_str = "" THEN << >>
  ELSE PeriodIfValid(i,
         IntOf(Group(low_line, m, 2)) * 12 + MonthOf(Group(low_line, m, 1)),
         IF is_present THEN now[1] * 12 + now[2]
         ELSE IntOf(y2_str) * 12 + MonthOf(Group(low_line, m, 4)))
PeriodOfMatch(low_line, m, i, now) ==
  PeriodOfEnd(low_line, m, i, now, IsPresentEnd(Group(low_line, m, 3)), Group(low_line, m, 5))

RECURSIVE PeriodsOfMatches(_, _, _, _, _)
PeriodsOfMatches(low_line, ms, k, i, now) ==
  IF k > Len(ms) THEN << >>
  ELSE PeriodOfMatch(low_line, ms[k], i, now) \o PeriodsOfMatches(low_line, ms, k + 1, i, now)

\* The periods of the matches of range_pattern in one line.
PeriodsOfLine(low_line, i, now) ==
  PeriodsOfMatches(low_line, FindIter(range_pattern, low_line), 1, i, now)
\* Pass 1: the date ranges of the lines that are not in an academic context.
RECURSIVE CollectPeriods(_, _, _)
CollectPeriods(lines, i, now) ==
  IF i > Len(lines) THEN << >>
  ELSE (IF AcademicContext(lines, i) THEN << >> ELSE PeriodsOfLine(Lower(lines[i]), i, now))
       \o CollectPeriods(lines, i + 1, now)

\* (variant: the periods are merged in their order of appearance)
SortPeriods_None(ps) == ps
\* periods.sort(): tuples (start, end) in lexicographic order.
PeriodLeq(a, b) == a.start < b.start \/ (a.start = b.start /\ a.end <= b.end)
RECURSIVE InsertSorted(_, _)
InsertSorted(sorted, x) ==
  IF Len(sorted) = 0 THEN << x >>
  ELSE IF PeriodLeq(x, Head(sorted)) THEN << x >> \o sorted
  ELSE << Head(sorted) >> \o InsertSorted(Tail(sorted), x)
RECURSIVE SortPeriods(_)
SortPeriods(ps) ==
  IF Len(ps) = 0 THEN << >> ELSE InsertSorted(SortPeriods(Tail(ps)), Head(ps))

\* Pass 2: the loop over the sorted periods; returns merged_months.
RECURSIVE MergeLoop(_, _, _, _, _)
MergeLoop(ps, k, curr_start, curr_end, merged_months) ==
  IF k > Len(ps) THEN merged_months + (curr_end - curr_start)
  ELSE IF curr_start = -1 THEN MergeLoop(ps, k + 1, ps[k].start, ps[k].end, merged_months)
  ELSE IF ps[k].start <= curr_end
       THEN MergeLoop(ps, k + 1, curr_start, Max(curr_end, ps[k].end), merged_months)
  ELSE MergeLoop(ps, k + 1, ps[k].start, ps[k].end, merged_months + (curr_end - curr_start))
MergedMonths(periods) == MergeLoop(SortPeriods(periods), 1, -1, -1, 0)

\* round(n / 12) of Python 3: to the nearest integer, an exact half to the
\* even neighbour.
RoundDiv12(n) ==
  LET q == n \div 12
      r == n % 12
  IN IF r < 6 THEN q
     ELSE IF r > 6 THEN q + 1
     ELSE IF q % 2 = 0 THEN q ELSE q + 1

\* re.findall(year_regex, low_line) as integers
year_search == Re(year_regex)
IntsOf(strs) == [k \in 1..Len(strs) |-> IntOf(strs[k])]
YearsOfLine(low_line) == IntsOf(FindAll(year_search, low_line))

\* Pass 3: all_work_years, the years of the lines without academic keyword.
RECURSIVE AllWorkYears(_, _)
AllWorkYears(lines, i) ==
  IF i > Len(lines) THEN << >>
  ELSE (IF HasAcademic(Lower(lines[i])) THEN << >> ELSE YearsOfLine(Lower(lines[i])))
       \o AllWorkYears(lines, i + 1)

SeqMin(sq) == CHOOSE x \in {sq[k] : k \in 1..Len(sq)} : \A k \in 1..Len(sq) : x <= sq[k]

\* Pass 3: experience from the earliest year, or "0".
SinceEarliest(valid, now) ==
  IF Len(valid) > 0 THEN StrOf(now[1] - SeqMin(valid)) ELSE "0"
EarliestYearExperience(lines, now) ==
  SinceEarliest(SelectSeq(AllWorkYears(lines, 1), LAMBDA y : 1980 < y /\ y <= now[1]), now)

\* Passes 2 and 3, periods being the list built by pass 1.
ExperienceOfPeriods(lines, periods, now) ==
  [ experience |->
      IF Len(periods) > 0 THEN StrOf(Max(1, RoundDiv12(MergedMonths(periods))))
      ELSE EarliestYearExperience(lines, now),
    periods |-> periods,
    stage2 |-> TRUE ]
DatedExperience(lines, now) == ExperienceOfPeriods(lines, CollectPeriods(lines, 1, now), now)
\* The block under "if metadata['experience'] == '0'", explicit being the
\* value left by the explicit-mention loops.
ExperienceAfter(explicit, text, now) ==
  IF explicit # "0" THEN [experience |-> explicit, periods |-> << >>, stage2 |-> FALSE]
  ELSE DatedExperience(SplitLines(text), now)
\* The whole experience computation: [experience, periods, stage2] where
\* periods is the list built by pass 1 (empty when the stage did not run).
Experience(text, now) == ExperienceAfter(ExplicitExperience(Lower(text)), text, now)


\* ------------------------------------------------------------------------
\* parse_cv_metadata: sections, and the whole function
\* ------------------------------------------------------------------------
\* The patterns carry (?i): they are matched against the lower-cased text and
\* the match is read from the text itself.
section_patterns ==
  << \* (exp[eé]riences?\s*(?:professionnelles?)?)
     Re(<< Lit("exp"), One({"e", "é"}), Lit("rience"), Opt(<<Lit("s")>>), Ws,
           Opt(<< Lit("professionnelle"), Opt(<<Lit("s")>>) >>) >>),
     \* (formations?\s*(?:acad[eé]miques?|diplomes?)?)
     Re(<< Lit("formation"), Opt(<<Lit("s")>>), Ws,
           Opt(<< Alt(<< << Lit("acad"), One({"e", "é"}), Lit("mique"), Opt(<<Lit("s")>>) >>,
                         << Lit("diplome"), Opt(<<Lit("s")>>) >> >>) >>) >>),
     \* (comp[eé]tences?)
     Re(<< Lit("comp"), One({"e", "é"}), Lit("tence"), Opt(<<Lit("s")>>) >>),
     \* (education|academic|skills|languages|projets|hobbies|profil)
     Re(<< Alt(<< <<Lit("education")>>, <<Lit("academic")>>, <<Lit("skills")>>, <<Lit("languages")>>,
                  <<Lit("projets")>>, <<Lit("hobbies")>>, <<Lit("profil")>> >>) >>) >>

\* set of matches[0].strip().title() over the patterns that match
SectionsOf(text, ms) ==
  {Title(Strip(Group0(text, ms[k]))) : k \in {j \in 1..Len(ms) : ms[j].ok}}
SectionMatches(text_lower) ==
  [k \in 1..Len(section_patterns) |-> ReSearch(section_patterns[k], text_lower)]
Sections(text) == SectionsOf(text, SectionMatches(Lower(text)))

\* The dictionary built by parse_cv_metadata(text) when the clock shows
\* now = <<year, month>>, short of the slice [:5] of the phones: phones holds
\* all the distinct valid phones.  With it come three locals of the call:
\* filtered_phones (as a set), periods, and stage2 (whether the block under
\* "if metadata['experience'] == '0'" was entered).
Extracted(text, all_phones, text_lower, lines, nd, exp) ==
  [ metadata |->
      [ emails |-> Emails(text),
        phones |-> all_phones,
        skills |-> Skills(text_lower),
        sections |-> Sections(text),
        name |-> nd.name,
        specialty |-> DetectSpecialty(lines, text_lower, nd),
        experience |-> exp.experience ],
    filtered_phones |-> SeqToSet(all_phones),
    periods |-> exp.periods,
    stage2 |-> exp.stage2 ]
ExtractedFrom(text, text_lower, lines, now) ==
  Extracted(text, Distinct(FilteredPhones(text)), text_lower, lines,
            DetectName(lines), Experience(text, now))
Extraction(text, now) ==
  IF IsEmptyOrError(text)
  THEN [metadata |-> DefaultMetadata, filtered_phones |-> {}, periods |-> << >>, stage2 |-> FALSE]
  ELSE ExtractedFrom(text, Lower(text), StrippedLines(text), now)

\* r with the phones cut to five, in each of the ways the slice can fall.
Sliced(r) == {[r EXCEPT !.metadata.phones = phones] : phones \in Sublists(r.metadata.phones)}
\* The results parse_cv_metadata(text) can give when the clock shows now.
parse_cv_metadata(text, now) == Sliced(Extraction(text, now))

\* ------------------------------------------------------------------------
\* The inputs: the texts of the CVs that are uploaded
\* ------------------------------------------------------------------------
\* The month names and abbreviations that month_regex accepts, each with the
\* number of the month in the calendar.
CalendarMonth ==
  ("janvier" :> 1) @@ ("février" :> 2) @@ ("fevrier" :> 2) @@ ("mars" :> 3) @@ ("avril" :> 4) @@
  ("mai" :> 5) @@ ("juin" :> 6) @@ ("juillet" :> 7) @@ ("août" :> 8) @@ ("aout" :> 8) @@
  ("septembre" :> 9) @@ ("octobre" :> 10) @@ ("novembre" :> 11) @@ ("décembre" :> 12) @@
  ("decembre" :> 12) @@ ("january" :> 1) @@ ("february" :> 2) @@ ("march" :> 3) @@
  ("april" :> 4) @@ ("may" :> 5) @@ ("june" :> 6) @@ ("july" :> 7) @@ ("august" :> 8) @@
  ("september" :> 9) @@ ("october" :> 10) @@ ("november" :> 11) @@ ("december" :> 12) @@
  ("jan" :> 1) @@ ("janv" :> 1) @@ ("fév" :> 2) @@ ("fev" :> 2) @@ ("févr" :> 2) @@
  ("fevr" :> 2) @@ ("mar" :> 3) @@ ("apr" :> 4) @@ ("jun" :> 6) @@ ("jul" :> 7) @@
  ("aug" :> 8) @@ ("sep" :> 9) @@ ("oct" :> 10) @@ ("nov" :> 11) @@ ("déc" :> 12) @@
  ("dec" :> 12)
MonthTokens == DOMAIN CalendarMonth
\* A one-line text with one date range, both ends carrying the month token.
MonthText(tok) == tok \o " 2015 - " \o tok \o " 2016"
MonthTexts == {MonthText(tok) : tok \in MonthTokens} \cup {"2015 - 2016", "Mars 2015 - 2017"}

\* The words for an open end, as written in a CV.
PresentSynonyms ==
  {"présent", "aujourd'hui", "maintenant", "actuel", "en cours", "now", "today"}
PresentText(syn) == "2019 - " \o syn
OpenEndText == "Jun 2020 - now"
PresentTexts ==
  {PresentText(syn) : syn \in PresentSynonyms}
    \cup {OpenEndText, "Acme\nJanvier 2024 - Aujourd'hui", "Depuis 2012 chez Acme"}

MergeText == "Jan 2015 - Dec 2016\nJan 2016 - Dec 2018"
MergeTexts == {MergeText, "Jan 2015 - Jan 2017\nJan 2016 - Jan 2019", "2010 - 2012\n2015 - 2016"}

\* Explicit mentions of the experience, alone and followed by dated lines.
ExplicitPhrases ==
  { "5 ans d'expérience", "0 ans d'expérience", "12 years of experience, 3 ans exp",
    "Expérience professionnelle : 7 ans", "plus de 10 ans", "expertise: 6 ans",
    "4 yrs exp", "Senior (8+ ans)", "3 années d'experience", "00 ans exp" }
DatedTails == {"", "\n2010 - 2015", "\nDepuis 2012"}
ExplicitTexts == {ph \o tail : ph \in ExplicitPhrases, tail \in DatedTails}

\* A date range at several distances below a line with an academic keyword.
AcademicHeads == {"Master degree", "Licence informatique"}
AcademicPads == {", ", "\n", "\nx\n", "\nx\ny\n", "\nx\ny\nz\n"}
MasterText == "Master degree, 2015-2020"
AcademicTexts ==
  {h \o pad \o "2015-2020" : h \in AcademicHeads, pad \in AcademicPads}
    \cup {"Acme 2012 - 2014\nMaster degree, 2015-2020", "2015-2020\nMaster degree"}

\* First lines of the shape "left separator right".
NameLefts == {"Jean Dupont", "jean dupont", "Jean Paul Dupont Martin", "Jean Dupont Manager"}
NameSeps == {" | ", " " \o EnDash \o " ", EmDash, " - "}
NameRights == {"Ingénieur Logiciel", "Dev"}
SeparatorText == "Jean Dupont | Chef Cuisinier\nIngénieur DevOps"
NameTexts ==
  {l \o sep \o r \o "\nTunis" : l \in NameLefts, sep \in NameSeps, r \in NameRights}
    \cup { SeparatorText,
           "Curriculum Vitae\nAnne Martin " \o EnDash \o " Data Scientist\nPython, SQL",
           "Jean D" \o EnDash \o "X | Consultant",
           "Jean Dupont\nIngénieur DevOps\njean.dupont@mail.fr",
           "MARIE CURIE\nPhysicienne." }

YearsOnlyText == "2018-2019\n2020"
SixPhonesText == "0102030405, 0102030406, 0102030407, 0102030408, 0102030409, 0102030410"
PhoneTexts ==
  { YearsOnlyText, "Tel: +33 6 12 34 56 78", "06 12 34 56 78 / 06 12 34 56 78",
    SixPhonesText, "0102030405, 0102030406, 0102030407, 0102030408",
    "01 02 03", "0123-4567", "(0123) 456 789", "12345678",
    "Tél 01.02.03.04.05 ou 2019\nmail: a.b@c.fr, a.b@c.fr" }

SentinelText == "Jean Dupont | Ingénieur Logiciel\njean@x.fr 5 ans d'expérience\n[ERREUR: page 2]"
GuardTexts == {"", " ", " \n\t ", "[ERREUR: lecture impossible]", SentinelText}

\* Skills alone, inside longer words, and next to punctuation.
JavaScriptText == "Développeur JavaScript"
SkillTexts ==
  { JavaScriptText, "Java", "JAVA et javascript", "C++", "C#", "Python C++ PHP", "c# sql",
    "C++11 et C#7", "Cargo, Django", "GO!", "React.js (Vue)", "Rust_lang" }

\* Texts without recognisable structure, and dates at the edges of what the
\* stages accept.
OddTexts ==
  { "|", " | ", "a|b", ".", "@", "x\n\n\ny", "2030 - 2031", "Depuis 2029", "1980", "1981 - 1981",
    "2020 - 2019", "1970 - 2026", "99999 ans d'expérience", "Mars - Avril", "2024 - now - 2025" }

\* One range of 6, 18, 30 and 42 months, and two ranges that make 30.
HalfTexts ==
  { "Jan 2015 - Jul 2015", "Jan 2015 - Jul 2016", "Jan 2015 - Jul 2017", "Jan 2015 - Jul 2018",
    "Jan 2015 - Jan 2016\nJan 2017 - Jul 2018", "Jan 2015 - Mar 2015", "Jan 2015 - Aug 2017" }

\* Lines of one letter, which no heuristic takes for a name.
Filler(n) == [k \in 1..n |-> "a"]
\* Names in the three casings, a separator line below a line with the shape
\* of a name, and name lines around the 10th and the 15th line.
PriorityText == "Marie Curie\nJean Dupont | Chef"
PriorityTexts ==
  { PriorityText, "The Boss", "THE BOSS\nMarie Curie", "the Boss\nMarie Curie", "LE GRAND ROI",
    "éé àà", "Jean  Dupont", "jean DUPONT", "jean dupont\nAnne Martin", "Jean-Paul SARTRE",
    "Paris Match\nPIERRE LE\nMarie Curie",
    Join(Filler(9) \o << "Jean Dupont | Chef", "Marie Curie" >>, "\n"),
    Join(<< "Marie Curie" >> \o Filler(9) \o << "Jean Dupont | Chef" >>, "\n"),
    Join(Filler(14) \o << "Marie Curie", "Anne Martin" >>, "\n"),
    Join(Filler(15) \o << "Marie Curie" >>, "\n") }

\* A run of n letters without meaning.
RECURSIVE Zs(_)
Zs(n) == IF n = 0 THEN "" ELSE IF n = 1 THEN "z" ELSE Zs(n \div 2) \o Zs(n - n \div 2)
\* A name line followed by lines that are or are not titles: of 80, 79 and 4
\* characters, ending with a period, in 3rd and 4th position after the name.
LongTitle == "Senior Data Engineer " \o Zs(59)
LongTitleText == "Marie Curie\n" \o LongTitle
TitleTexts ==
  { LongTitleText, "Marie Curie\nSenior Data Engineer " \o Zs(58), "Marie Curie\nLead",
    "Marie Curie\nlead.\nx\nDevOps\nCloud", "Marie Curie\na\nb\nc\nCloud guru",
    "Marie Curie | ab\nCloud guru", "Marie Curie\nfoo\nbar\nManager des ventes",
    "Marie Curie\nExpert Comptable.\nMarketing", "Marie Curie\nPeintre\nRH" }

\* Catalogue entries in the first 500 characters and after them.
HeaderText == "Marketing " \o Zs(495) \o " Data Scientist"
CatalogueTexts ==
  { HeaderText, Zs(500) \o " Marketing, Data Scientist", Zs(488) \o " Ingénieur Data X",
    Zs(490) \o " Data Scientist Manager", "Bonjour", "UX/UI Designer", "ux/ui",
    "Consultant et chef de projet", "architecte cloud, cloud architect" }

Corpus ==
  MonthTexts \cup PresentTexts \cup MergeTexts \cup ExplicitTexts \cup AcademicTexts
    \cup NameTexts \cup PhoneTexts \cup GuardTexts \cup SkillTexts \cup OddTexts \cup HalfTexts
    \cup PriorityTexts \cup TitleTexts \cup CatalogueTexts

\* ------------------------------------------------------------------------
\* The program: a CV is uploaded, time passes, the batch script re-parses it
\* ------------------------------------------------------------------------
\* The clock at the upload, <<year, month>>.
Clock0 == << 2026, 12 >>
\* The months the clock may advance, and the runs of the batch script.
MaxTicks == 1
MaxReparses == 1

VARIABLES
  text,     \* the text extracted from the uploaded file (column "content")
  clock,    \* what datetime.now() gives: <<year, month>>
  calls,    \* the calls of parse_cv_metadata made so far, each with its clock
  stored,   \* column metadata_json of the row of the CV; NoRow before the upload
  url,      \* column url of the row: "" (NULL) unless the CV came from a URL
  cvs,      \* table cvs when several files are uploaded: the rows by id
  requests  \* the POST requests of /upload in flight, each with its position
vars == << text, clock, calls, stored, url, cvs, requests >>

NoRow == [name |-> "(no row)"]
Months(c) == c[1] * 12 + c[2]
\* The record of a call that returned r: r and the clock of the call.
Call(r) == [now |-> clock] @@ r

\* The profile returned by call c is written to metadata_json.
Store(c) ==
  /\ calls' = Append(calls, c)
  /\ stored' = c.metadata

Init ==
  /\ text \in Corpus
  /\ clock = Clock0
  /\ calls = << >>
  /\ stored = NoRow
  /\ url = ""
  /\ cvs = << >>
  /\ requests = << >>

\* upload(): the file branch.  The text is parsed and the row is inserted
\* with the profile as metadata_json.
Upload ==
  /\ stored = NoRow
  /\ \E r \in parse_cv_metadata(text, clock) : Store(Call(r))
  /\ UNCHANGED << text, clock, url, cvs, requests >>

\* re_parse_all_cvs(): the stored content is parsed again and metadata_json is
\* overwritten.
Reparse ==
  /\ stored # NoRow
  /\ Len(calls) < 1 + MaxReparses
  /\ \E r \in parse_cv_metadata(text, clock) : Store(Call(r))
  /\ UNCHANGED << text, clock, url, cvs, requests >>

\* A month passes while the CV is in the database.
Tick ==
  /\ stored # NoRow
  /\ Months(clock) - Months(Clock0) < MaxTicks
  /\ clock' = IF clock[2] = 12 THEN << clock[1] + 1, 1 >> ELSE << clock[1], clock[2] + 1 >>
  /\ UNCHANGED << text, calls, stored, url, cvs, requests >>

Next == Upload \/ Reparse \/ Tick
Spec == Init /\ [][Next]_vars

\* ------------------------------------------------------------------------
\* The record of a CV: upload from a URL, edition, re-parse
\* ------------------------------------------------------------------------
\* The texts and the addresses of the CVs fetched from a URL.
RecordTexts ==
  { SeparatorText, "Jean Dupont\nIngénieur DevOps\njean.dupont@mail.fr", OpenEndText,
    "Python C++ PHP", " ", "  Anne Martin\nData Scientist\n" }
Urls == {"https://example.org/cv.pdf", "http://example.org/anne"}

\* The profile returned by call c, with source_url added, is written to
\* metadata_json.
StoreWithUrl(c, cv_url) ==
  /\ calls' = Append(calls, c)
  /\ stored' = c.metadata @@ [source_url |-> cv_url]
  /\ url' = cv_url

\* upload(): the URL branch.  The document is fetched, its text parsed, and
\* the row inserted with the profile and its source_url.
UploadUrl ==
  /\ stored = NoRow
  /\ \E cv_url \in Urls : \E r \in parse_cv_metadata(text, clock) : StoreWithUrl(Call(r), cv_url)
  /\ UNCHANGED << text, clock, cvs, requests >>

\* What the user can submit in the form of edit_cv: the fields as shown with
\* another name, or every field emptied and another text.
Forms ==
  { [ name |-> "Anne Martin ", specialty |-> stored.specialty, experience |-> stored.experience,
      text |-> text, emails |-> stored.emails, phones |-> stored.phones,
      skills |-> stored.skills ],
    [ name |-> "", specialty |-> "", experience |-> "", text |-> " Anne Martin\nData Scientist ",
      emails |-> {}, phones |-> << >>, skills |-> << >> ] }

\* edit_cv(), POST: six fields of the stored profile are replaced by those
\* of the form, and the row is updated with the text of the form.
EditCv ==
  /\ stored # NoRow
  /\ \E form \in Forms :
       /\ stored' = [stored EXCEPT !.name = Strip(form.name),
                                   !.specialty = Strip(form.specialty),
                                   !.experience = Strip(form.experience),
                                   !.emails = form.emails,
                                   !.phones = form.phones,
                                   !.skills = form.skills]
       /\ text' = Strip(form.text)
  /\ UNCHANGED << clock, calls, url, cvs, requests >>

RecordInit ==
  /\ text \in RecordTexts
  /\ clock = Clock0
  /\ calls = << >>
  /\ stored = NoRow
  /\ url = ""
  /\ cvs = << >>
  /\ requests = << >>
RecordNext == Upload \/ UploadUrl \/ EditCv \/ Reparse \/ Tick
RecordSpec == RecordInit /\ [][RecordNext]_vars

\* ------------------------------------------------------------------------
\* Pass 2 alone: the merge of a list of periods
\* ------------------------------------------------------------------------
\* The periods lie in the MaxSpan months from January 2015 on, and pass 1
\* has collected at most MaxPeriods of them.
MaxSpan == 3
MaxPeriods == 3
FirstMonth == 2015 * 12 + 1
\* The periods pass 1 accepts in that span: 0 < end - start < 480.
SpanPeriods ==
  { << a, b >> \in (0..MaxSpan) \X (0..MaxSpan) : 0 < b - a /\ b - a < 480 }
\* The lists periods can be after pass 1, in every order of appearance.
PeriodLists ==
  UNION { [1..n -> SpanPeriods] : n \in 1..MaxPeriods }
\* The list of period records for the list ps of pairs.
AsPeriods(ps) ==
  [k \in 1..Len(ps) |-> [line |-> k, start |-> FirstMonth + ps[k][1], end |-> FirstMonth + ps[k][2]]]

\* Pass 2 runs on the list periods; the call is recorded with its result.
MergePass ==
  /\ calls = << >>
  /\ \E ps \in PeriodLists :
       calls' = << [periods |-> AsPeriods(ps), merged_months |-> MergedMonths(AsPeriods(ps))] >>
  /\ UNCHANGED << text, clock, stored, url, cvs, requests >>

MergeInit ==
  /\ text = ""
  /\ clock = Clock0
  /\ calls = << >>
  /\ stored = NoRow
  /\ url = ""
  /\ cvs = << >>
  /\ requests = << >>
MergeNext == MergePass
MergeSpec == MergeInit /\ [][MergeNext]_vars

\* ------------------------------------------------------------------------
\* File uploads handled at the same time: the duplicate check and the insert
\* ------------------------------------------------------------------------
\* The server of app.run() handles each request in a thread of its own, and
\* check_duplicate() and insert_cv() each open a connection and commit.
MaxRequests == 2
Requests == 1..MaxRequests
ALLOWED_EXTENSIONS == {"pdf", "txt", "docx"}
\* filename.rsplit('.', 1)[1]
Ext(filename) ==
  SubSeq(filename, SetMax({i \in 1..Len(filename) : At(filename, i) = "."}) + 1, Len(filename))
allowed_file(filename) == Contains(filename, ".") /\ Lower(Ext(filename)) \in ALLOWED_EXTENSIONS

\* secure_filename(): the name is decomposed and reduced to ASCII, the path
\* separator becomes a space, the words are joined with "_", the characters
\* outside [A-Za-z0-9_.-] are dropped and the dots and underscores at the
\* ends are stripped.
Unaccent ==
  ("à" :> "a") @@ ("â" :> "a") @@ ("ç" :> "c") @@ ("è" :> "e") @@ ("é" :> "e") @@
  ("ê" :> "e") @@ ("î" :> "i") @@ ("ï" :> "i") @@ ("ô" :> "o") @@ ("ù" :> "u") @@
  ("û" :> "u") @@ ("À" :> "A") @@ ("Â" :> "A") @@ ("Ç" :> "C") @@ ("È" :> "E") @@
  ("É" :> "E") @@ ("Ê" :> "E") @@ ("Î" :> "I") @@ ("Ï" :> "I") @@ ("Ô" :> "O") @@
  ("Ù" :> "U") @@ ("Û" :> "U")
SafeChars == LowerAZ \cup UpperAZ \cup Digits \cup {"_", ".", "-"}
\* One character after normalize("NFKD"), encode("ascii", "ignore") and the
\* replacement of os.path.sep.
AsciiChar(c) ==
  IF c = "/" THEN " "
  ELSE IF c \in SafeChars \cup Space THEN c
  ELSE IF c \in DOMAIN Unaccent THEN Unaccent[c]
  ELSE ""
RECURSIVE AsciiFrom(_, _)
AsciiFrom(s, i) == IF i > Len(s) THEN "" ELSE AsciiChar(At(s, i)) \o AsciiFrom(s, i + 1)
\* _filename_ascii_strip_re.sub("", s)
RECURSIVE SafeFrom(_, _)
SafeFrom(s, i) ==
  IF i > Len(s) THEN ""
  ELSE (IF At(s, i) \in SafeChars THEN At(s, i) ELSE "") \o SafeFrom(s, i + 1)
\* s.strip("._")
StripDots(s) ==
  SubSeq(s, SetMin({j \in 1..Len(s) : At(s, j) \notin {".", "_"}} \cup {Len(s) + 1}),
            SetMax({j \in 1..Len(s) : At(s, j) \notin {".", "_"}} \cup {0}))
secure_filename(filename) ==
  StripDots(SafeFrom(Join(SplitWords(AsciiFrom(filename, 1)), "_"), 1))

\* The names of the files the users send, and the texts extracted from them.
Filenames ==
  { "", "cv.pdf", "CV final.pdf", "CV_final.pdf", "../cv.pdf", "résumé.docx", "resume.docx",
    ".pdf", "cv.exe" }
UploadTexts == { SeparatorText, " " }
\* A request that has not been received yet.
NoRequest == [pc |-> "idle", filename |-> "", original_filename |-> "", cv_id |-> 0]
\* check_duplicate(original_filename): the ids the SELECT ... LIMIT 1 can return.
check_duplicate(original_filename) ==
  {i \in 1..Len(cvs) : cvs[i].original_filename = original_filename}
\* insert_cv(): the row, with the id lastrowid gives.
insert_cv(original_filename, file_type, metadata) ==
  Append(cvs, [id |-> Len(cvs) + 1, original_filename |-> original_filename,
               file_type |-> file_type, text |-> text, metadata |-> metadata])

\* upload(), POST, file branch, up to the duplicate check: an empty name or
\* an extension that is not allowed is refused with a message.
Post(r) ==
  /\ requests[r].pc = "idle"
  /\ \E filename \in Filenames :
       requests' = [requests EXCEPT ![r] =
         IF filename = "" \/ ~allowed_file(filename)
         THEN [NoRequest EXCEPT !.pc = "refused", !.filename = filename]
         ELSE [NoRequest EXCEPT !.pc = "check", !.filename = filename,
                                !.original_filename = secure_filename(filename)]]
  /\ UNCHANGED << text, clock, calls, stored, url, cvs >>

\* upload(): check_duplicate() is called; with an existing id the request is
\* redirected to that CV, otherwise it goes on.
CheckDuplicate(r) ==
  /\ requests[r].pc = "check"
  /\ IF check_duplicate(requests[r].original_filename) = {}
     THEN requests' = [requests EXCEPT ![r].pc = "insert"]
     ELSE \E existing_id \in check_duplicate(requests[r].original_filename) :
            requests' = [requests EXCEPT ![r].pc = "redirected", ![r].cv_id = existing_id]
  /\ UNCHANGED << text, clock, calls, stored, url, cvs >>

\* upload(): the file is saved, its text extracted and parsed, the row is
\* inserted and the request redirected to it.  A name without a dot after
\* secure_filename() makes rsplit('.', 1)[1] raise.
InsertCv(r) ==
  /\ requests[r].pc = "insert"
  /\ IF ~Contains(requests[r].original_filename, ".")
     THEN /\ requests' = [requests EXCEPT ![r].pc = "error"]
          /\ UNCHANGED cvs
     ELSE \E c \in parse_cv_metadata(text, clock) :
            /\ cvs' = insert_cv(requests[r].original_filename, "file", c.metadata)
            /\ requests' = [requests EXCEPT ![r].pc = "inserted", ![r].cv_id = Len(cvs) + 1]
  /\ UNCHANGED << text, clock, calls, stored, url >>

UploadsInit ==
  /\ text \in UploadTexts
  /\ clock = Clock0
  /\ calls = << >>
  /\ stored = NoRow
  /\ url = ""
  /\ cvs = << >>
  /\ requests = [r \in Requests |-> NoRequest]
UploadsNext == \E r \in Requests : Post(r) \/ CheckDuplicate(r) \/ InsertCv(r)
UploadsSpec == UploadsInit /\ [][UploadsNext]_vars


\* ------------------------------------------------------------------------
\* Properties
\* ------------------------------------------------------------------------
\* Two profiles are the same, emails, phones and sections compared as sets.
SameProfile(a, b) ==
  /\ a.emails = b.emails
  /\ SeqToSet(a.phones) = SeqToSet(b.phones)
  /\ a.sections = b.sections
  /\ a.skills = b.skills
  /\ a.name = b.name
  /\ a.specialty = b.specialty
  /\ a.experience = b.experience

\* The text holds only whitespace (or nothing).
IsBlank(t) == \A i \in 1..Len(t) : At(t, i) \in Space
\* The text holds the error sentinel somewhere.
HasSentinel(t) == \E i \in 1..Len(t) : SubSeq(t, i, Min(Len(t), i + 6)) = "[ERREUR"

C2_DefaultOnEmptyOrSentinel ==
  \A k \in 1..Len(calls) :
    (IsBlank(text) \/ HasSentinel(text)) =>
      /\ calls[k].metadata.emails = {}
      /\ calls[k].metadata.phones = << >>
      /\ calls[k].metadata.skills = << >>
      /\ calls[k].metadata.sections = {}
      /\ calls[k].metadata.name = "Inconnu"
      /\ calls[k].metadata.specialty = "À définir"
      /\ calls[k].metadata.experience = "0"
      /\ calls[k].filtered_phones = {}
      /\ calls[k].periods = << >>
      /\ ~calls[k].stage2

\* A text with a name, an e-mail and an explicit mention before the sentinel
\* has been parsed.
C2_Witness ==
  /\ text = SentinelText
  /\ Len(calls) > 0
  /\ calls[1].metadata = DefaultMetadata

\* C3: for the text made of the two lines "Jan 2015 - Dec 2016" and
\* "Jan 2016 - Dec 2018" the experience is "4".
C3_MergedSpanIsFour ==
  \A k \in 1..Len(calls) : text = MergeText => calls[k].metadata.experience = "4"

\* C4: a range that ends with any of the present synonyms is kept as a
\* period that ends at the year and month of the clock.
C4_PresentSynonymsKept ==
  \A k \in 1..Len(calls) : \A syn \in PresentSynonyms :
    text = PresentText(syn) =>
      calls[k].periods =
        << [line |-> 1, start |-> 2019 * 12 + 1, end |-> Months(calls[k].now)] >>

\* C5: for every month token the pattern accepts, both ends of the range
\* are given the calendar number of the month; a range without month token
\* gets month 1.
C5_MonthTokensUseCalendarNumber ==
  \A k \in 1..Len(calls) :
    /\ \A tok \in MonthTokens :
         text = MonthText(tok) =>
           calls[k].periods =
             << [ line |-> 1, start |-> 2015 * 12 + CalendarMonth[tok],
                  end |-> 2016 * 12 + CalendarMonth[tok] ] >>
    /\ text = "2015 - 2016" =>
         calls[k].periods = << [line |-> 1, start |-> 2015 * 12 + 1, end |-> 2016 * 12 + 1] >>

\* The explicit-mention patterns that match the lower-cased text.
ExplicitHits(t) == {p \in 1..Len(exp_patterns) : ReSearch(exp_patterns[p], Lower(t)).ok}
\* The digits captured by the first pattern of the list that matches.
FirstCapture(t) ==
  Group(Lower(t), ReSearch(exp_patterns[SetMin(ExplicitHits(t))], Lower(t)), 1)

\* C6: when some explicit-mention pattern matches a text that passes the
\* guard, the date-interval and earliest-year stages do not run and the
\* experience is the captured digits.
C6_ExplicitMentionStopsStages ==
  \A k \in 1..Len(calls) :
    (~IsBlank(text) /\ ~HasSentinel(text) /\ ExplicitHits(text) # {}) =>
      /\ ~calls[k].stage2
      /\ calls[k].metadata.experience = FirstCapture(text)

\* The words of the part of line left of sep, and the part right of it.
LeftPart(line, sep) == Strip(SubSeq(line, 1, IndexOf(line, sep, 1) - 1))
RightPart(line, sep) == Strip(SubSeq(line, IndexOf(line, sep, 1) + 1, Len(line)))
\* 2-3 words, fewer than 40 characters, no skip word, only capitalised words.
IsNameLike(left) ==
  /\ Len(SplitWords(left)) \in 2..3
  /\ Len(left) < 40
  /\ \A k \in 1..Len(skip_words) : ~Contains(Lower(left), skip_words[k])
  /\ \A k \in 1..Len(SplitWords(left)) : IsUpperChar(At(SplitWords(left)[k], 1))
\* The separators with which line is a "name separator title" line.
NameSeparators(line) ==
  {sep \in {"|", EnDash, EmDash} : Contains(line, sep) /\ IsNameLike(LeftPart(line, sep))}
\* The positions, among the first 10 non-empty lines, of such lines.
SeparatorLinesOf(lines) == {i \in 1..Min(10, Len(lines)) : NameSeparators(lines[i]) # {}}
SeparatorLines(t) == SeparatorLinesOf(StrippedLines(t))
\* The profile takes name and specialty from the separator line.
TakenFromLine(m, line) ==
  \E sep \in NameSeparators(line) :
    /\ m.name = LeftPart(line, sep)
    /\ Len(RightPart(line, sep)) > 3 => m.specialty = RightPart(line, sep)

\* C7 as stated: if there is a separator line among the first 10 non-empty
\* lines, the name is the left part of the first one and, when its right
\* part is longer than 3 characters, the specialty is that right part.
C7_SeparatorLineGivesName ==
  \A k \in 1..Len(calls) :
    SeparatorLines(text) # {} =>
      TakenFromLine(calls[k].metadata, StrippedLines(text)[SetMin(SeparatorLines(text))])

\* C7 amended: the same, for a text that does not hold the error sentinel.
C7_SeparatorLineGivesNameUnlessSentinel ==
  \A k \in 1..Len(calls) :
    (~HasSentinel(text) /\ SeparatorLines(text) # {}) =>
      TakenFromLine(calls[k].metadata, StrippedLines(text)[SetMin(SeparatorLines(text))])

\* A separator line followed by a line the post-name heuristic would take
\* has been parsed.
C7_Witness ==
  /\ text = SeparatorText
  /\ Len(calls) > 0
  /\ calls[1].metadata.name = "Jean Dupont"
  /\ calls[1].metadata.specialty = "Chef Cuisinier"

\* C8: when explicit-mention patterns match a text that passes the guard,
\* the experience is the digit string captured by the first matching pattern
\* of the list.
C8_FirstPatternInListOrder ==
  \A k \in 1..Len(calls) :
    (~IsBlank(text) /\ ~HasSentinel(text) /\ ExplicitHits(text) # {}) =>
      calls[k].metadata.experience = FirstCapture(text)

\* p is four digits.
IsFourDigits(p) == Len(p) = 4 /\ \A i \in 1..4 : At(p, i) \in Digits
\* p is a bare 19xx or 20xx year.
IsBareYear(p) == IsFourDigits(p) /\ SubSeq(p, 1, 2) \in {"19", "20"}
\* p is a YYYY-YYYY range.
IsYearRange(p) ==
  \E i \in 1..Len(p) :
    /\ At(p, i) \in {"-", EnDash}
    /\ IsFourDigits(Strip(SubSeq(p, 1, i - 1)))
    /\ IsFourDigits(Strip(SubSeq(p, i + 1, Len(p))))

\* C9: in every returned profile phones holds at most 5 entries, all
\* distinct, each with at least 8 digits, beginning with +, 0 or (, and
\* neither a bare year nor a year range; the text "2018-2019", "2020" yields
\* no phone.
C9_PhonesAreFiltered ==
  \A k \in 1..Len(calls) :
    /\ Len(calls[k].metadata.phones) <= 5
    /\ \A a, b \in 1..Len(calls[k].metadata.phones) :
         a # b => calls[k].metadata.phones[a] # calls[k].metadata.phones[b]
    /\ \A a \in 1..Len(calls[k].metadata.phones) :
         /\ CountDigits(calls[k].metadata.phones[a]) >= 8
         /\ At(calls[k].metadata.phones[a], 1) \in {"+", "0", "("}
         /\ ~IsBareYear(calls[k].metadata.phones[a])
         /\ ~IsYearRange(calls[k].metadata.phones[a])
    /\ text = YearsOnlyText => calls[k].metadata.phones = << >>

\* A text with six valid phones has been parsed and five were kept.
C9_Witness ==
  /\ text = SixPhonesText
  /\ Len(calls) > 0
  /\ Cardinality(calls[1].filtered_phones) = 6
  /\ Len(calls[1].metadata.phones) = 5

\* Line i of lines, or one of the 3 lines before it, holds an academic keyword.
AcademicNear(lines, i) ==
  \E j \in Max(1, i - 3)..i : \E k \in 1..Len(academic_keywords) :
    Contains(Lower(lines[j]), academic_keywords[k])

\* C10: no period comes from a line that holds an academic keyword or has
\* one on any of the 3 lines before it; "Master degree, 2015-2020" gives no
\* period.
C10_AcademicLinesGiveNoPeriod ==
  \A k \in 1..Len(calls) :
    /\ \A n \in 1..Len(calls[k].periods) :
         ~AcademicNear(SplitLines(text), calls[k].periods[n].line)
    /\ text = MasterText => calls[k].periods = << >>

\* A date range three lines below an academic line went through the
\* date-interval stage and was left out.
C10_Witness ==
  /\ text = "Master degree\nx\ny\n2015-2020"
  /\ Len(calls) > 0
  /\ calls[1].stage2
  /\ calls[1].periods = << >>

\* There is a word boundary in t between positions i - 1 and i.
IsBoundary(t, i) == (At(t, i - 1) \in WordChars) # (At(t, i) \in WordChars)
\* w occurs in t between two word boundaries, whatever the case.
IsWholeWord(w, t) ==
  \E i \in 1..(Len(t) - Len(w) + 1) :
    /\ Lower(SubSeq(t, i, i + Len(w) - 1)) = Lower(w)
    /\ IsBoundary(t, i)
    /\ IsBoundary(t, i + Len(w))
\* w occurs in t as a token: between whitespace or the ends of the text.
IsToken(w, t) ==
  \E i \in 1..(Len(t) - Len(w) + 1) :
    /\ Lower(SubSeq(t, i, i + Len(w) - 1)) = Lower(w)
    /\ i = 1 \/ At(t, i - 1) \in Space
    /\ i + Len(w) = Len(t) + 1 \/ At(t, i + Len(w)) \in Space

\* C11: every reported skill occurs in the text as a whole word, whatever
\* the case; a text with "JavaScript" and no "Java" standing alone reports
\* JavaScript and not Java.
C11_SkillsAreWholeWords ==
  \A k \in 1..Len(calls) :
    /\ \A n \in 1..Len(calls[k].metadata.skills) :
         IsWholeWord(calls[k].metadata.skills[n], text)
    /\ text = JavaScriptText => calls[k].metadata.skills = << "JavaScript" >>

\* The text with JavaScript and no Java has been parsed.
C11_Witness ==
  /\ text = JavaScriptText
  /\ Len(calls) > 0
  /\ calls[1].metadata.skills = << "JavaScript" >>

\* C12: every entry of the vocabulary that stands in the text as a token,
\* between whitespace or the ends of the text, is in skills with the casing
\* of the vocabulary.
C12_TokensAreReported ==
  \A k \in 1..Len(calls) : \A n \in 1..Len(skill_keywords) :
    (~HasSentinel(text) /\ IsToken(skill_keywords[n], text)) =>
      skill_keywords[n] \in SeqToSet(calls[k].metadata.skills)

\* The seven fields of a profile.
ProfileFields == {"emails", "phones", "skills", "sections", "name", "specialty", "experience"}
\* s is a non-empty string of decimal digits.
IsDigitString(s) == Len(s) > 0 /\ \A i \in 1..Len(s) : At(s, i) \in Digits

\* C13: every call returns a profile with the seven fields, none of them
\* null, and experience is a string of decimal digits.
C13_ProfileIsComplete ==
  \A k \in 1..Len(calls) :
    /\ DOMAIN calls[k].metadata = ProfileFields
    /\ IsFiniteSet(calls[k].metadata.emails)
    /\ IsFiniteSet(calls[k].metadata.sections)
    /\ DOMAIN calls[k].metadata.phones = 1..Len(calls[k].metadata.phones)
    /\ DOMAIN calls[k].metadata.skills = 1..Len(calls[k].metadata.skills)
    /\ Len(calls[k].metadata.name) > 0
    /\ Len(calls[k].metadata.specialty) > 0
    /\ IsDigitString(calls[k].metadata.experience)

\* A text whose only year lies after the clock's has been parsed: no stage
\* gives a value and experience is the default.
C13_Witness ==
  /\ text = "Depuis 2029"
  /\ Len(calls) > 0
  /\ calls[1].stage2
  /\ calls[1].metadata.experience = "0"

\* C14: the stored profile carries source_url exactly when the row was
\* created by a URL upload, and it is then the URL of that upload.
C14_SourceUrlKept ==
  stored # NoRow =>
    IF url # "" THEN "source_url" \in DOMAIN stored /\ stored.source_url = url
    ELSE "source_url" \notin DOMAIN stored

\* The months covered by at least one of the periods ps.
CoveredMonths(ps) == UNION { ps[k].start..(ps[k].end - 1) : k \in 1..Len(ps) }
\* ps in the reverse order.
Reversed(ps) == [k \in 1..Len(ps) |-> ps[Len(ps) + 1 - k]]

\* C15: the merged month total of a list of periods is the number of months
\* covered by their union, and the reversed list has the same total.
C15_MergeCountsTheUnion ==
  \A k \in 1..Len(calls) :
    /\ calls[k].merged_months = Cardinality(CoveredMonths(calls[k].periods))
    /\ MergedMonths(Reversed(calls[k].periods)) = calls[k].merged_months

\* Three periods were merged that appear in decreasing order: the last two
\* touch, the first is apart.
C15_Witness ==
  /\ Len(calls) = 1
  /\ Len(calls[1].periods) = 3
  /\ calls[1].periods[1].start = FirstMonth + 2 /\ calls[1].periods[1].end = FirstMonth + 3
  /\ calls[1].periods[2].start = FirstMonth + 1 /\ calls[1].periods[2].end = FirstMonth + 2
  /\ calls[1].periods[3].start = FirstMonth /\ calls[1].periods[3].end = FirstMonth + 1
  /\ calls[1].merged_months = 3

\* n / 12 rounded to the nearest integer, an exact half away from zero.
HalfAwayDiv12(n) == (2 * n + 12) \div 24

\* C16: when periods were collected, experience is the number of months
\* they cover, divided by 12 and rounded to the nearest integer, an exact
\* half upwards, and at least 1.
C16_HalvesRoundAwayFromZero ==
  \A k \in 1..Len(calls) :
    Len(calls[k].periods) > 0 =>
      calls[k].metadata.experience
        = StrOf(Max(1, HalfAwayDiv12(Cardinality(CoveredMonths(calls[k].periods)))))

\* Every character of w from position i on is in the class cs.
AllIn(w, i, cs) == \A n \in i..Len(w) : At(w, n) \in cs
\* The three casings of a name, on the words of the line: an upper-case
\* letter then lower-case ones; upper-case only; letters of both cases with
\* a word that begins in upper case and no common word.
IsTitleCase(words) ==
  \A k \in 1..Len(words) :
    Len(words[k]) >= 2 /\ At(words[k], 1) \in UpperClass /\ AllIn(words[k], 2, LowerClass)
IsAllCaps(words) ==
  \A k \in 1..Len(words) : Len(words[k]) >= 2 /\ AllIn(words[k], 1, UpperClass \cup {"-"})
IsMixedCase(words) ==
  /\ \A k \in 1..Len(words) : Len(words[k]) >= 2 /\ AllIn(words[k], 1, UpperClass \cup LowerClass)
  /\ \E k \in 1..Len(words) : IsUpperChar(At(words[k], 1))
  /\ \A k \in 1..Len(words) : Lower(words[k]) \notin common_words
\* The name the line gives by its shape, the casings tried in that order;
\* "" when the line does not qualify.
ShapeName(line) ==
  IF \/ Len(SplitWords(line)) \notin 2..3
     \/ Len(line) >= 50
     \/ \E k \in 1..Len(skip_words) : Contains(Lower(line), skip_words[k])
  THEN ""
  ELSE IF IsTitleCase(SplitWords(line)) THEN line
  ELSE IF IsAllCaps(SplitWords(line)) THEN Title(line)
  ELSE IF IsMixedCase(SplitWords(line))
       THEN Join([k \in 1..Len(SplitWords(line)) |-> Recase(SplitWords(line)[k])], " ")
  ELSE ""
\* The positions, among the first 15 non-empty lines, of the lines that
\* qualify by their shape.
ShapeLinesOf(lines) == {i \in 1..Min(15, Len(lines)) : ShapeName(lines[i]) # ""}
ShapeLines(t) == ShapeLinesOf(StrippedLines(t))
\* The position of the name line among the non-empty lines, 0 if no name
\* line was found: the first separator line, else the first line with the
\* shape of a name.
NameLineAmong(seps, shapes) ==
  IF seps # {} THEN SetMin(seps) ELSE IF shapes # {} THEN SetMin(shapes) ELSE 0
NameLineOf(lines) == NameLineAmong(SeparatorLinesOf(lines), ShapeLinesOf(lines))
NameLine(t) == NameLineOf(StrippedLines(t))
\* The names the priority rule allows for the lines.
PriorityNamesAt(lines, n) ==
  IF n = 0 THEN {"Inconnu"}
  ELSE IF NameSeparators(lines[n]) # {} /\ n <= 10
       THEN {LeftPart(lines[n], sep) : sep \in NameSeparators(lines[n])}
  ELSE {ShapeName(lines[n])}
PriorityNamesOf(lines) == PriorityNamesAt(lines, NameLineOf(lines))
PriorityNames(t) == PriorityNamesOf(StrippedLines(t))
\* Every parse gave a name of the set.
NamesAreIn(names) == \A k \in 1..Len(calls) : calls[k].metadata.name \in names
\* Every parse gave that specialty.
SpecialtiesAre(specialty) == \A k \in 1..Len(calls) : calls[k].metadata.specialty = specialty

\* C17: when name detection runs (the text passes the guard), the name is
\* the left part of the first separator line among the first 10 non-empty
\* lines if there is one, whatever the lines above it;
\* otherwise it is given by the first line among the first 15 that has the
\* shape of a name, the casings tried in the order title case, all caps,
\* mixed; otherwise it is the default.
C17_SeparatorBeforeLineShape ==
  (Len(calls) > 0 /\ ~IsBlank(text) /\ ~HasSentinel(text)) => NamesAreIn(PriorityNames(text))

\* A separator line below a line with the shape of a name has been parsed
\* and the name is the one of the separator line.
C17_Witness ==
  /\ text = PriorityText
  /\ Len(calls) > 0
  /\ ShapeLines(text) = {1}
  /\ SeparatorLines(text) = {2}
  /\ calls[1].metadata.name = "Jean Dupont"

\* The separator heuristic sets the specialty: line n is a separator line
\* whose right part is longer than 3 characters.
SeparatorSetsSpecialtyAt(lines, n) ==
  /\ n # 0 /\ n <= 10
  /\ \E sep \in NameSeparators(lines[n]) : Len(RightPart(lines[n], sep)) > 3
\* One of the words occurs in the lower-case string.
HasAny(s_lower, words) == \E k \in 1..Len(words) : Contains(s_lower, words[k])
\* The line is a title: 3 to 80 characters, no final period, a title keyword.
IsTitle(line) ==
  /\ 3 <= Len(line) /\ Len(line) <= 80
  /\ ~EndsWith(line, ".")
  /\ HasAny(Lower(line), title_keywords)
\* The positions of the titles among the up to 3 lines after line n.
TitleLinesAt(lines, n) == {i \in (n + 1)..Min(n + 3, Len(lines)) : IsTitle(lines[i])}
\* The catalogue entries that occur in s, whatever the case, by position in
\* the catalogue.
EntriesInLower(s) == {k \in 1..Len(specialties) : Contains(s, Lower(specialties[k]))}
EntriesIn(s) == EntriesInLower(Lower(s))
\* The first entry of the header's set, else of the whole text's set, else
\* the default.
ChoiceAmong(header, whole) ==
  IF header # {} THEN specialties[SetMin(header)]
  ELSE IF whole # {} THEN specialties[SetMin(whole)]
  ELSE "À définir"
\* The specialty the catalogue gives for the text: the first entry found in
\* the first 500 characters, else the first found anywhere, else the default.
\* (a text of at most 500 characters is its own header)
CatalogueChoice(t) ==
  ChoiceAmong(EntriesIn(SubSeq(t, 1, Min(500, Len(t)))),
              IF Len(t) > 500 THEN EntriesIn(t) ELSE {})
\* The specialty of the post-name rule: the first title after the name line,
\* else the choice of the catalogue.
PostNameChoiceAmong(t, lines, titles) ==
  IF titles # {} THEN lines[SetMin(titles)] ELSE CatalogueChoice(t)
\* The specialty is left to the post-name rule: the text passes the guard, a
\* name line was found and the separator heuristic did not set the specialty.
PostNameRuleAt(t, lines, n) ==
  ~IsBlank(t) /\ ~HasSentinel(t) /\ n # 0 /\ ~SeparatorSetsSpecialtyAt(lines, n)
PostNameHoldsAt(t, lines, n) ==
  PostNameRuleAt(t, lines, n) => SpecialtiesAre(PostNameChoiceAmong(t, lines, TitleLinesAt(lines, n)))
PostNameHoldsOf(t, lines) == PostNameHoldsAt(t, lines, NameLineOf(lines))

\* C18: when a name line was found and the separator heuristic did not set
\* the specialty, the specialty is the first title among the up to 3 lines
\* after the name line, and the catalogue is used only if there is none.
C18_FirstTitleAfterName ==
  Len(calls) > 0 => PostNameHoldsOf(text, StrippedLines(text))

\* The catalogue fallback runs: the text passes the guard and no heuristic
\* before the catalogue has set the specialty.
FallbackRunsAt(t, lines, n) ==
  /\ ~IsBlank(t) /\ ~HasSentinel(t)
  /\ ~SeparatorSetsSpecialtyAt(lines, n)
  /\ n = 0 \/ \A i \in (n + 1)..Min(n + 3, Len(lines)) : ~IsTitleLine(lines[i])
FallbackRunsOf(t, lines) == FallbackRunsAt(t, lines, NameLineOf(lines))
FallbackRuns(t) == FallbackRunsOf(t, StrippedLines(t))

\* C19: in the catalogue fallback the specialty is the first entry of the
\* catalogue found in the first 500 characters of the text, else the first
\* entry found anywhere in the text, else the default.
C19_CatalogueHeaderFirst ==
  (Len(calls) > 0 /\ FallbackRuns(text)) => SpecialtiesAre(CatalogueChoice(text))

\* A text with a late entry of the catalogue in its first 500 characters and
\* an early entry after them has been parsed: the late entry is taken.
C19_Witness ==
  /\ text = HeaderText
  /\ Len(calls) > 0
  /\ FallbackRuns(text)
  /\ calls[1].metadata.specialty = "Marketing"

\* The entries of the set that contain the specialty and are not it.
LongerEntries(entries, specialty) ==
  {j \in entries : specialties[j] # specialty /\ Contains(Lower(specialties[j]), Lower(specialty))}
\* No parse gave a specialty contained in a longer entry of the set.
NoLongerEntry(entries) ==
  \A k \in 1..Len(calls) : LongerEntries(entries, calls[k].metadata.specialty) = {}

\* C20: no entry of the catalogue comes after an entry that is a substring
\* of it, whatever the case, and the fallback never labels a text with an
\* entry contained in a longer entry that the header holds.
C20_CatalogueMostSpecificFirst ==
  /\ \A i, j \in 1..Len(specialties) :
       i < j => ~Contains(Lower(specialties[j]), Lower(specialties[i]))
  /\ (Len(calls) > 0 /\ FallbackRuns(text)) =>
       NoLongerEntry(EntriesIn(SubSeq(text, 1, Min(500, Len(text)))))

\* A four-digit year from 1970 to 2029 stands in the line as a word.
HasYear(line) ==
  \E i \in 1..(Len(line) - 3) :
    /\ \/ SubSeq(line, i, i + 1) = "20" /\ At(line, i + 2) \in {"0", "1", "2"}
       \/ SubSeq(line, i, i + 1) = "19" /\ At(line, i + 2) \in {"7", "8", "9"}
    /\ At(line, i + 3) \in Digits
    /\ IsBoundary(line, i)
    /\ IsBoundary(line, i + 4)
\* The positions of the lines of the text that hold a year.
YearLines(lines) == {i \in 1..Len(lines) : HasYear(lines[i])}
\* The academic-context rule excludes line i: the line or one of the 3 lines
\* before it holds an academic keyword.
IsExcluded(lines, i) ==
  \E j \in Max(1, i - 3)..i : HasAny(Lower(lines[j]), academic_keywords)
\* Every parse that found no explicit experience phrase gave that experience.
DatedExperiencesAre(experience) ==
  \A k \in 1..Len(calls) : calls[k].stage2 => calls[k].metadata.experience = experience
\* The text has years and all of them are on excluded lines.
OnlyExcludedYears(lines, years) == years # {} /\ \A i \in years : IsExcluded(lines, i)
NoStudyYearsCountOf(lines) ==
  OnlyExcludedYears(lines, YearLines(lines)) => DatedExperiencesAre("0")

\* C21: a text whose only years are on lines that the academic-context rule
\* excludes (the line or one of the 3 lines before it holds an academic
\* keyword), and that has no explicit experience phrase, has experience "0".
C21_ExcludedYearsNeverCount ==
  (Len(calls) > 0 /\ ~IsBlank(text) /\ ~HasSentinel(text)) => NoStudyYearsCountOf(SplitLines(text))

\* C22: for file uploads there is at most one row per sanitized original
\* filename, also when the requests are handled at the same time, and a
\* request whose filename is already in the table inserts nothing and is
\* redirected to the row that holds it.
C22_OneRecordPerFilename ==
  /\ \A i, j \in 1..Len(cvs) :
       (cvs[i].file_type = "file" /\ cvs[j].file_type = "file"
         /\ cvs[i].original_filename = cvs[j].original_filename) => i = j
  /\ \A r \in DOMAIN requests :
       requests[r].pc = "redirected" =>
         cvs[requests[r].cv_id].original_filename = requests[r].original_filename

====
